---- MODULE Spec2Model ----
(***************************************************************************)
(* Model of the ITU-T P.1203 reference implementation (package itu_p1203): *)
(* the sliding measurement window, the Pa / Pv short-term modules, the Pq  *)
(* constructor and the pipeline orchestrator P1203Standalone.              *)
(*                                                                         *)
(* Time is counted in ticks of 1/3200 s, so that 0.01 s (the Pa sampling   *)
(* period), 1/128 s and 0.99 s are all whole numbers of ticks.  A Python   *)
(* float is the record [t |-> ticks, e |-> sign of its rounding error]:    *)
(* e = 0 for values that are exact in binary floating point.               *)
(***************************************************************************)
EXTENDS Integers, Sequences, FiniteSets, TLC

VARIABLES mw, cb_log, err, drv, pa, pv, pq, sa

vars == <<mw, cb_log, err, drv, pa, pv, pq, sa>>

\* ------------------------------------------------------------------ bounds
MaxPvsDur == 22
MaxDurChanges == 1
MaxFinished == 2
MaxFramesAfterFinish == 1

\* --------------------------------------------------------------- time base
TicksPerSec == 25 * 128

Sec(n) == n * TicksPerSec

Flt(t, e) == [t |-> t, e |-> e]

Exact(t) == Flt(t, 0)

\* Sign of (0.01 added n times in IEEE-754 double arithmetic) - n/100.
DriftSign(n) ==
    IF n <= 0 THEN 0
    ELSE IF n <= 2 THEN 1
    ELSE IF n = 3 THEN -1
    ELSE IF n <= 8 THEN 1
    ELSE IF n <= 15 THEN -1
    ELSE IF n <= 206 THEN 1
    ELSE IF n <= 1790 THEN -1
    ELSE 1

\* a += d.  An exact d keeps the error of a; an inexact d is only ever added
\* to a running sum of that same d that started at 0 (Pa's 0.01 s frames).
FltAdd(a, d) ==
    [t |-> a.t + d.t,
     e |-> IF d.e = 0 THEN a.e ELSE DriftSign((a.t + d.t) \div d.t)]

FltSub(a, d) == [t |-> a.t - d.t, e |-> a.e]

\* x < ticks, x >= ticks, x > ticks on floats
FltLt(a, ticks) == a.t < ticks \/ (a.t = ticks /\ a.e < 0)

FltGe(a, ticks) == ~FltLt(a, ticks)

FltGt(a, ticks) == a.t > ticks \/ (a.t = ticks /\ a.e > 0)

\* round(x, 5): the rounding error is far below 1e-5
Round5(a) == a.t

\* math.floor(x), in seconds
Floor(a) ==
    IF a.t % TicksPerSec = 0 /\ a.e < 0 /\ a.t > 0
    THEN (a.t \div TicksPerSec) - 1
    ELSE a.t \div TicksPerSec

\* math.ceil(x), in seconds
Ceil(a) ==
    IF a.t % TicksPerSec = 0
    THEN (IF a.e > 0 THEN (a.t \div TicksPerSec) + 1 ELSE a.t \div TicksPerSec)
    ELSE (a.t \div TicksPerSec) + 1

\* x - floor(x) > 0.99
FracAbove99(a) ==
    LET rem == a.t - Sec(Floor(a))
    IN  rem * 100 > 99 * TicksPerSec \/ (rem * 100 = 99 * TicksPerSec /\ a.e > 0)

\* -------------------------------------------------------------- utilities
\* utils.get_chunk_hash: the explicit representation, else the string built
\* from bitrate, codec, fps and displaySize, kept as the tuple of its parts
\* (the coding resolution is no part of it)
get_chunk_hash(frame, type) ==
    IF "representation" \in DOMAIN frame THEN frame.representation
    ELSE IF type = "video"
    THEN IF "displaySize" \in DOMAIN frame
         THEN <<"hash", frame.bitrate, frame.codec, frame.fps, frame.displaySize>>
         ELSE <<"hash", frame.bitrate, frame.codec, frame.fps>>
    ELSE <<"hash", frame.bitrate, frame.codec>>

\* sum of the elements lo..hi of seq
RECURSIVE SumRange(_, _, _)
SumRange(seq, lo, hi) ==
    IF lo > hi THEN 0
    ELSE IF lo = hi THEN seq[lo]
    ELSE SumRange(seq, lo, (lo + hi) \div 2) + SumRange(seq, (lo + hi) \div 2 + 1, hi)

\* sum of the elements of seq from index k on
SumFrom(seq, k) == SumRange(seq, k, Len(seq))

\* ------------------------------------------------------ MeasurementWindow
max_size == 20

half_window_size == max_size \div 2

MeasurementWindow ==
    [frames |-> <<>>,
     removed_frames |-> <<>>,
     last_score_output_at |-> 0,
     acc_frame_dur |-> Exact(0),
     acc_pvs_dur |-> Exact(0),
     score_callback |-> "unset"]

\* Every window operation returns the window after the call, the callback
\* invocations it made (timestamp and the frame list handed over) and the
\* exception that ended it ("none" when it returned).
Outcome(w, calls, e) == [mw |-> w, calls |-> calls, err |-> e]

set_score_callback(w, callback) ==
    IF callback # "callable"
    THEN Outcome(w, <<>>, "SystemExit")
    ELSE Outcome([w EXCEPT !.score_callback = "set"], <<>>, "none")

\* a score is output as soon as the next full second of presentation time
\* is complete
should_calculate_score_no_half_window(w) ==
    IF FltGe(w.acc_pvs_dur, Sec(w.last_score_output_at + 1))
    THEN LET next_score_output_at == w.last_score_output_at + 1
         IN  IF w.score_callback = "unset"
             THEN Outcome(w, <<>>, "AttributeError")
             ELSE Outcome([w EXCEPT !.last_score_output_at = next_score_output_at],
                          <<[ts |-> next_score_output_at, frames |-> w.frames]>>,
                          "none")
    ELSE Outcome(w, <<>>, "none")

should_calculate_score(w) ==
    IF w.last_score_output_at = 0
       /\ Round5(w.acc_pvs_dur) < Sec(half_window_size + 1)
    THEN Outcome(w, <<>>, "none")
    ELSE IF FltGe(FltSub(w.acc_pvs_dur, Exact(Sec(half_window_size))),
                  Sec(w.last_score_output_at + 1))
    THEN LET next_score_output_at == w.last_score_output_at + 1
         IN  IF w.score_callback = "unset"
             THEN Outcome(w, <<>>, "AttributeError")
             ELSE Outcome([w EXCEPT !.last_score_output_at = next_score_output_at],
                          <<[ts |-> next_score_output_at, frames |-> w.frames]>>,
                          "none")
    ELSE Outcome(w, <<>>, "none")

add_frame(w, frame) ==
    IF "duration" \notin DOMAIN frame
    THEN Outcome(w, <<>>, "KeyError")
    ELSE IF frame.duration.t = 0
    THEN Outcome(w, <<>>, "SystemExit")
    ELSE LET evict == FltGt(FltAdd(w.acc_frame_dur, frame.duration), Sec(max_size))
         IN  IF evict /\ w.frames = <<>>
             THEN Outcome(w, <<>>, "IndexError")
             ELSE LET w1 == IF evict
                            THEN [w EXCEPT
                                    !.frames = Tail(@),
                                    !.removed_frames = Append(@, Head(w.frames)),
                                    !.acc_frame_dur = FltSub(@, Head(w.frames).duration)]
                            ELSE w
                      type == IF "fps" \notin DOMAIN frame THEN "audio" ELSE "video"
                      rep == get_chunk_hash(frame, type)
                      fr == [k \in DOMAIN frame \cup {"representation"} |->
                               IF k = "representation" THEN rep ELSE frame[k]]
                      w2 == [w1 EXCEPT
                               !.frames = Append(@, fr),
                               !.acc_frame_dur = FltAdd(@, fr.duration),
                               !.acc_pvs_dur = FltAdd(@, fr.duration)]
                  IN  should_calculate_score(w2)

\* the inner loop, popping one frame at most
EvictBefore_one(w, bound) ==
    IF w.frames = <<>> THEN [mw |-> w, err |-> "IndexError"]
    ELSE IF Round5(w.frames[1].dts) < bound
    THEN [mw |-> [w EXCEPT
                    !.frames = Tail(@),
                    !.removed_frames = Append(@, Head(w.frames)),
                    !.acc_frame_dur = FltSub(@, Exact(Head(w.frames).duration.t))],
          err |-> "none"]
    ELSE [mw |-> w, err |-> "none"]

\* the inner loop without the update of the accumulated duration
EvictBefore_keep_acc(w, bound) ==
    LET n == Len(w.frames)
        keep == {i \in 1..n : ~(Round5(w.frames[i].dts) < bound)}
        k == IF keep = {} THEN n
             ELSE (CHOOSE i \in keep : \A j \in keep : i <= j) - 1
        w1 == [w EXCEPT
                 !.frames = SubSeq(@, k + 1, n),
                 !.removed_frames = @ \o SubSeq(w.frames, 1, k)]
    IN  [mw |-> w1, err |-> IF keep = {} THEN "IndexError" ELSE "none"]

\* The inner while loop of stream_finished: pop every leading frame whose
\* dts is below the bound; reading _frames[0] of an empty list raises.
EvictBefore(w, bound) ==
    LET n == Len(w.frames)
        keep == {i \in 1..n : ~(Round5(w.frames[i].dts) < bound)}
        k == IF keep = {} THEN n
             ELSE (CHOOSE i \in keep : \A j \in keep : i <= j) - 1
        popped == SubSeq(w.frames, 1, k)
        popped_dur == Exact(SumFrom([i \in 1..k |-> popped[i].duration.t], 1))
        w1 == [w EXCEPT
                 !.frames = SubSeq(@, k + 1, n),
                 !.removed_frames = @ \o popped,
                 !.acc_frame_dur = FltSub(@, popped_dur)]
    IN  [mw |-> w1, err |-> IF keep = {} THEN "IndexError" ELSE "none"]

RECURSIVE FlushFrom(_, _, _, _)
FlushFrom(w, output_sample_timestamp, final, calls) ==
    IF output_sample_timestamp > final
    THEN Outcome(w, calls, "none")
    ELSE LET r == EvictBefore(w, Sec(output_sample_timestamp - half_window_size))
         IN  IF r.err # "none"
             THEN Outcome(r.mw, calls, r.err)
             ELSE IF r.mw.score_callback = "unset"
             THEN Outcome(r.mw, calls, "AttributeError")
             ELSE FlushFrom(r.mw, output_sample_timestamp + 1, final,
                            Append(calls, [ts |-> output_sample_timestamp,
                                           frames |-> r.mw.frames]))

final_sample_timestamp(w) ==
    IF FracAbove99(w.acc_pvs_dur) THEN Ceil(w.acc_pvs_dur) ELSE Floor(w.acc_pvs_dur)

\* a flush that outputs nothing before the window has warmed up
stream_finished_after_warm_up(w) ==
    IF FltLt(w.acc_pvs_dur, Sec(half_window_size + 1))
    THEN Outcome(w, <<>>, "none")
    ELSE FlushFrom(w, w.last_score_output_at + 1, final_sample_timestamp(w), <<>>)

stream_finished(w) ==
    FlushFrom(w, w.last_score_output_at + 1, final_sample_timestamp(w), <<>>)


\* ----------------------------------------- a caller of the window (SpecMW)
\* The caller builds frames the way Pa and Pv do: the dts of a frame is the
\* running sum of the durations fed so far, and it stops at the first
\* exception.  drv is the caller's own bookkeeping.
\* 127/128 s, 1 s, 2 s and 11 s: all exact in binary floating point
FrameDurations == {3175, 3200, 6400, 35200}

Idle == [pc |-> "idle"]

Driver ==
    [dts |-> Exact(0), last_dur |-> 0, changes |-> 0, finished |-> 0, after |-> 0,
     last_op |-> "init"]

\* what the recording callback keeps of one invocation
CallRecord(call, by) ==
    [ts |-> call.ts,
     by |-> by,
     n |-> Len(call.frames),
     first_dts |-> IF call.frames = <<>> THEN -1 ELSE call.frames[1].dts.t,
     n_before |-> Cardinality({i \in 1..Len(call.frames) :
                                 FltLt(call.frames[i].dts, Sec(call.ts))})]

CallRecords(calls, by) == [i \in 1..Len(calls) |-> CallRecord(calls[i], by)]

InitMW ==
    /\ mw = MeasurementWindow
    /\ cb_log = <<>>
    /\ err = "none"
    /\ drv = Driver
    /\ pa = Idle
    /\ pv = Idle
    /\ pq = Idle
    /\ sa = Idle

MwSetScoreCallback(callback) ==
    /\ err = "none"
    /\ callback = "callable" => drv.last_op = "init"
    /\ LET r == set_score_callback(mw, callback)
       IN  /\ mw' = r.mw
           /\ err' = r.err
    /\ drv' = [drv EXCEPT !.last_op = IF callback = "callable" THEN "set_score_callback"
                                     ELSE "set_score_callback_not_callable"]
    /\ UNCHANGED <<cb_log, pa, pv, pq, sa>>

MwApplyAddFrame(frame, d, op) ==
    LET r == add_frame(mw, frame)
    IN  /\ mw' = r.mw
        /\ err' = r.err
        /\ cb_log' = cb_log \o CallRecords(r.calls, "add_frame")
        /\ drv' = [drv EXCEPT
                     !.dts = IF r.err \in {"SystemExit", "KeyError"} THEN @
                             ELSE FltAdd(@, Exact(d)),
                     !.last_dur = IF d = 0 THEN @ ELSE d,
                     !.changes = IF d # 0 /\ drv.last_dur # 0 /\ d # drv.last_dur
                                 THEN @ + 1 ELSE @,
                     !.after = IF drv.finished > 0 THEN @ + 1 ELSE @,
                     !.last_op = op]
        /\ UNCHANGED <<pa, pv, pq, sa>>

MwAddFrame(d) ==
    /\ err = "none"
    /\ drv.dts.t + d <= Sec(MaxPvsDur)
    /\ drv.last_dur = 0 \/ d = drv.last_dur \/ drv.changes < MaxDurChanges
    /\ drv.finished > 0 => drv.after < MaxFramesAfterFinish
    /\ MwApplyAddFrame([duration |-> Exact(d), dts |-> drv.dts,
                        bitrate |-> 128, codec |-> "aaclc"], d, "add_frame")

\* a frame whose duration is 0 (or None: both are falsy)
MwAddFrameZeroDuration ==
    /\ err = "none"
    /\ MwApplyAddFrame([duration |-> Exact(0), dts |-> drv.dts,
                        bitrate |-> 128, codec |-> "aaclc"], 0, "add_frame_zero_duration")

\* a frame dict without the "duration" key
MwAddFrameNoDuration ==
    /\ err = "none"
    /\ MwApplyAddFrame([dts |-> drv.dts, bitrate |-> 128, codec |-> "aaclc"], 0,
                       "add_frame_no_duration")

MwStreamFinished ==
    /\ err = "none"
    /\ drv.finished < MaxFinished
    /\ LET r == stream_finished(mw)
       IN  /\ mw' = r.mw
           /\ err' = r.err
           /\ cb_log' = cb_log \o CallRecords(r.calls, "stream_finished")
    /\ drv' = [drv EXCEPT !.finished = @ + 1, !.last_op = "stream_finished"]
    /\ UNCHANGED <<pa, pv, pq, sa>>

NextMW ==
    \/ \E callback \in {"callable", "not_callable"} : MwSetScoreCallback(callback)
    \/ \E d \in FrameDurations : MwAddFrame(d)
    \/ MwAddFrameZeroDuration
    \/ MwAddFrameNoDuration
    \/ MwStreamFinished

SpecMW == InitMW /\ [][NextMW]_vars


\* ------------------------------------------------------------ utils (cont.)
\* utils.get_chunk: the frames around output_sample_index that share its
\* chunk hash (only that frame when onlyfirst)
get_chunk(frames, output_sample_index, type, onlyfirst) ==
    LET target_ql == get_chunk_hash(frames[output_sample_index], type)
        Same(j) == get_chunk_hash(frames[j], type) = target_ql
        lo == CHOOSE a \in 1..output_sample_index :
                /\ \A j \in a..output_sample_index : Same(j)
                /\ a = 1 \/ ~Same(a - 1)
        hi == CHOOSE b \in output_sample_index..Len(frames) :
                /\ \A j \in output_sample_index..b : Same(j)
                /\ b = Len(frames) \/ ~Same(b + 1)
    IN  IF onlyfirst THEN <<frames[output_sample_index]>>
        ELSE SubSeq(frames, lo, hi)

\* [i for i, f in enumerate(frames) if f["dts"] < output_sample_timestamp][-1]
\* 0 stands for the IndexError of [-1] on an empty selection
LastIndexBefore(frames, output_sample_timestamp) ==
    LET sel == {i \in 1..Len(frames) : FltLt(frames[i].dts, Sec(output_sample_timestamp))}
    IN  IF sel = {} THEN 0 ELSE CHOOSE i \in sel : \A j \in sel : j <= i

\* ---------------------------------------------------------------- P1203Pa
VALID_CODECS == {"mp2", "ac3", "aaclc", "heaac"}

P1203Error == "P1203StandaloneError"

sample_rate == 100

\* The MOS returned for a valid codec is kept as the term it is computed
\* from: equal terms are equal floats.
audio_model_function(codec, bitrate) ==
    IF codec \notin VALID_CODECS
    THEN [err |-> P1203Error]
    ELSE [err |-> "none", mos |-> [codec |-> codec, bitrate |-> bitrate]]

\* P1203Pa.model_callback on one invocation: the instance afterwards
PaModelCallback(inst, call) ==
    LET output_sample_index == LastIndexBefore(call.frames, call.ts)
    IN  IF output_sample_index = 0
        THEN [inst EXCEPT !.err = "IndexError"]
        ELSE LET first_frame == get_chunk(call.frames, output_sample_index, "audio", TRUE)[1]
                 score == audio_model_function(first_frame.codec, first_frame.bitrate)
             IN  IF score.err # "none"
                 THEN [inst EXCEPT !.err = score.err]
                 ELSE [inst EXCEPT !.o21 = Append(@, score.mos)]

\* the callback is invoked once per call, in order, until one raises
RECURSIVE PaCallbacks(_, _)
PaCallbacks(inst, calls) ==
    IF calls = <<>> \/ inst.err # "none" THEN inst
    ELSE PaCallbacks(PaModelCallback(inst, Head(calls)), Tail(calls))

\* P1203Pa._calculate_fast_mode
RECURSIVE calculate_fast_mode(_, _)
calculate_fast_mode(inst, k) ==
    IF k > Len(inst.segments) THEN inst
    ELSE LET segment == inst.segments[k]
             score == audio_model_function(segment.codec, segment.bitrate)
         IN  IF score.err # "none"
             THEN [inst EXCEPT !.err = score.err]
             ELSE calculate_fast_mode(
                    [inst EXCEPT !.o21 = @ \o [j \in 1..(segment.duration \div TicksPerSec)
                                                 |-> score.mos]],
                    k + 1)

\* P1203Pa.__init__
P1203Pa(segments) ==
    [segments |-> segments, o21 |-> <<>>, err |-> "none",
     pc |-> "new", seg |-> 0, i |-> 0, num_frames |-> 0, dts |-> Exact(0)]


\* -------------------------------------------------- Pa sessions (SpecPa)
\* One audio session is run four times, each on a fresh P1203Pa instance:
\* in fast mode and with the measurement window, on the segments as given
\* and on the same segments with codec "aac" written as "aaclc".
MaxAudioSegments == 2
MaxAudioDur == 18

AudioCodecs == {"aac", "aaclc"}

AudioBitrates == {64, 128}

\* 7 s and 17.995 s
AudioDurations == {22400, 57584}

AudioSegments ==
    [codec : AudioCodecs, bitrate : AudioBitrates, duration : AudioDurations]

RECURSIVE SumDuration(_)
SumDuration(segments) ==
    IF segments = <<>> THEN 0 ELSE Head(segments).duration + SumDuration(Tail(segments))

AudioSessions ==
    {s \in UNION {[1..n -> AudioSegments] : n \in 1..MaxAudioSegments} :
        SumDuration(s) <= Sec(MaxAudioDur)}

LongAudioDur == 21

\* one session longer than the window, so that add_frame evicts
LongAudioSessions ==
    {<<[codec |-> "aaclc", bitrate |-> 64, duration |-> Sec(LongAudioDur)]>>}

AsAaclc(segments) ==
    [k \in 1..Len(segments) |->
        IF segments[k].codec = "aac" THEN [segments[k] EXCEPT !.codec = "aaclc"]
        ELSE segments[k]]

PaRunPlan ==
    <<[fast_mode |-> TRUE, aliased |-> FALSE],
      [fast_mode |-> TRUE, aliased |-> TRUE],
      [fast_mode |-> FALSE, aliased |-> FALSE],
      [fast_mode |-> FALSE, aliased |-> TRUE]>>

PaInput(input, k) == IF PaRunPlan[k].aliased THEN AsAaclc(input) ELSE input

InitPa ==
    /\ \E input \in AudioSessions \cup LongAudioSessions :
         pa = [pc |-> "session", input |-> input, k |-> 1, results |-> <<>>,
               fast_mode |-> PaRunPlan[1].fast_mode,
               inst |-> P1203Pa(PaInput(input, 1))]
    /\ mw = MeasurementWindow
    /\ cb_log = <<>>
    /\ err = "none"
    /\ drv = Idle
    /\ pv = Idle
    /\ pq = Idle
    /\ sa = Idle

\* what model_callback is handed at each invocation that PaCallbacks makes
\* (the invocations up to the first that raises): the timestamp, the caller,
\* and how many frames of the window lie before ts - half_window_size, by
\* their dts and by their dts rounded to five places
RECURSIVE PaInvocations(_, _, _)
PaInvocations(inst, calls, by) ==
    IF calls = <<>> \/ inst.err # "none" THEN <<>>
    ELSE LET call == Head(calls)
             bound == Sec(call.ts - half_window_size)
             idx == 1..Len(call.frames)
         IN  <<[ts |-> call.ts, by |-> by,
                stale |-> Cardinality({i \in idx : FltLt(call.frames[i].dts, bound)}),
                stale_rounded |->
                    Cardinality({i \in idx : Round5(call.frames[i].dts) < bound})]>>
             \o PaInvocations(PaModelCallback(inst, call), Tail(calls), by)

\* calculate() has returned or raised: keep what the caller sees
PaReturn(inst) ==
    [pa EXCEPT
       !.inst = [inst EXCEPT !.pc = IF inst.err = "none" THEN "done" ELSE "error"],
       !.results = Append(@, [o21 |-> inst.o21, err |-> inst.err])]

\* calculate(fast_mode=True)
PaCalculateFast ==
    /\ pa.inst.pc = "new"
    /\ pa.fast_mode
    /\ pa' = PaReturn(calculate_fast_mode(pa.inst, 1))
    /\ UNCHANGED <<mw, cb_log, err, drv, pv, pq, sa>>

\* calculate(fast_mode=False), up to the segment loop
PaCalculateWindow ==
    /\ pa.inst.pc = "new"
    /\ ~pa.fast_mode
    /\ mw' = set_score_callback(MeasurementWindow, "callable").mw
    /\ pa' = [pa EXCEPT !.inst.pc = "segment", !.inst.seg = 1, !.inst.dts = Exact(0)]
    /\ cb_log' = <<>>
    /\ UNCHANGED <<err, drv, pv, pq, sa>>

\* head of one iteration of the segment loop
PaSegment ==
    /\ pa.inst.pc = "segment"
    /\ pa.inst.seg <= Len(pa.inst.segments)
    /\ LET segment == pa.inst.segments[pa.inst.seg]
       IN  pa' = [pa EXCEPT
                    !.inst.pc = "frames",
                    !.inst.i = 0,
                    !.inst.num_frames = (segment.duration * sample_rate) \div TicksPerSec,
                    !.inst.segments[pa.inst.seg].codec =
                        IF segment.codec = "aac" THEN "aaclc" ELSE @]
    /\ UNCHANGED <<mw, cb_log, err, drv, pv, pq, sa>>

\* one iteration of the frame loop, or its exit
PaFrame ==
    /\ pa.inst.pc = "frames"
    /\ IF pa.inst.i >= pa.inst.num_frames
       THEN /\ pa' = [pa EXCEPT !.inst.pc = "segment", !.inst.seg = @ + 1]
            /\ mw' = mw
            /\ cb_log' = cb_log
       ELSE LET segment == pa.inst.segments[pa.inst.seg]
                frame_duration == Flt(TicksPerSec \div sample_rate, 1)
                frame == [duration |-> frame_duration, dts |-> pa.inst.dts,
                          bitrate |-> segment.bitrate, codec |-> segment.codec]
                r == add_frame(mw, frame)
                inst1 == PaCallbacks([pa.inst EXCEPT !.err = r.err], r.calls)
            IN  /\ mw' = r.mw
                /\ cb_log' = cb_log \o PaInvocations([pa.inst EXCEPT !.err = r.err],
                                                     r.calls, "add_frame")
                /\ pa' = IF inst1.err # "none" THEN PaReturn(inst1)
                         ELSE [pa EXCEPT
                                 !.inst = [inst1 EXCEPT
                                             !.i = @ + 1,
                                             !.dts = FltAdd(@, frame_duration)]]
    /\ UNCHANGED <<err, drv, pv, pq, sa>>

\* measurementwindow.stream_finished() and the return of calculate()
PaStreamFinished ==
    /\ pa.inst.pc = "segment"
    /\ pa.inst.seg > Len(pa.inst.segments)
    /\ LET r == stream_finished(mw)
           inst1 == PaCallbacks(pa.inst, r.calls)
       IN  /\ mw' = r.mw
           /\ cb_log' = cb_log \o PaInvocations(pa.inst, r.calls, "stream_finished")
           /\ pa' = PaReturn(IF inst1.err = "none" THEN [inst1 EXCEPT !.err = r.err]
                             ELSE inst1)
    /\ UNCHANGED <<err, drv, pv, pq, sa>>

\* the next run of the session, on a fresh instance and a fresh window
PaNew ==
    /\ pa.inst.pc \in {"done", "error"}
    /\ pa.k < Len(PaRunPlan)
    /\ pa' = [pa EXCEPT !.k = @ + 1,
                        !.fast_mode = PaRunPlan[pa.k + 1].fast_mode,
                        !.inst = P1203Pa(PaInput(pa.input, pa.k + 1))]
    /\ mw' = MeasurementWindow
    /\ UNCHANGED <<cb_log, err, drv, pv, pq, sa>>

NextPa ==
    \/ PaCalculateFast
    \/ PaCalculateWindow
    \/ PaSegment
    \/ PaFrame
    \/ PaStreamFinished
    \/ PaNew

SpecPa == InitPa /\ [][NextPa]_vars


\* ---------------------------------------------------------------- P1203Pv
\* The O22 sample of one callback is kept as the term it is computed from.
\* video_model_function_mode0 on the chunk's mean bitrate
video_model_function_mode0(coding_res, display_res, bitrates, framerate) ==
    [model |-> 0, coding_res |-> coding_res, display_res |-> display_res,
     bitrates |-> bitrates, framerate |-> framerate]

\* video_model_function_mode1 on the bitrate recomputed from the frames
video_model_function_mode1(coding_res, display_res, framerate, frames) ==
    [model |-> 1, coding_res |-> coding_res, display_res |-> display_res,
     framerate |-> framerate,
     sizes |-> [i \in 1..Len(frames) |-> <<frames[i].type, frames[i].size, frames[i].dts.t>>]]

\* the QP values of the P and B frames that mode 3 averages
RECURSIVE CollectQppb(_, _, _)
CollectQppb(frames, index, qppb) ==
    IF index > Len(frames) THEN qppb
    ELSE LET frame_type == frames[index].type
         IN  IF frame_type \in {"P", "B"}
             THEN CollectQppb(frames, index + 1, qppb \o frames[index].qpValues)
             ELSE IF frame_type = "I" /\ Len(qppb) > 0
             THEN IF Len(qppb) > 1
                  THEN CollectQppb(frames, index + 1,
                                   [qppb EXCEPT ![Len(qppb)] = qppb[Len(qppb) - 1]])
                  ELSE CollectQppb(frames, index + 1, <<>>)
             ELSE CollectQppb(frames, index + 1, qppb)

video_model_function_mode3(coding_res, display_res, framerate, frames) ==
    IF \E i \in 1..Len(frames) : frames[i].type \notin {"I", "P", "B"}
    THEN [err |-> P1203Error]
    ELSE [err |-> "none",
          score |-> [model |-> 3, coding_res |-> coding_res, display_res |-> display_res,
                     framerate |-> framerate, qppb |-> CollectQppb(frames, 1, <<>>)]]

\* P1203Pv.model_callback on one invocation: the instance afterwards
PvModelCallback(inst, call) ==
    LET output_sample_index == LastIndexBefore(call.frames, call.ts)
    IN  IF output_sample_index = 0
        THEN [inst EXCEPT !.err = "IndexError"]
        ELSE
        LET frames == get_chunk(call.frames, output_sample_index, "video", FALSE)
            first_frame == frames[1]
            m3 == video_model_function_mode3(first_frame.resolution, inst.display_res,
                                             first_frame.fps, frames)
            score == IF inst.mode = 0
                     THEN video_model_function_mode0(
                            first_frame.resolution, inst.display_res,
                            [i \in 1..Len(frames) |-> frames[i].bitrate], first_frame.fps)
                     ELSE IF inst.mode = 1
                     THEN video_model_function_mode1(
                            first_frame.resolution, inst.display_res, first_frame.fps, frames)
                     ELSE m3.score
            \* modes 0 and 1 append the score before the codec check
            inst1 == IF inst.mode \in {0, 1} THEN [inst EXCEPT !.o22 = Append(@, score)]
                     ELSE inst
            codec_list == {frames[i].codec : i \in 1..Len(frames)}
        IN  IF inst.mode \notin {0, 1, 3}
            THEN [inst EXCEPT !.err = P1203Error]
            ELSE IF inst.mode = 3 /\ m3.err # "none"
            THEN [inst EXCEPT !.err = m3.err]
            ELSE IF Cardinality(codec_list) > 1
            THEN [inst1 EXCEPT !.err = P1203Error]
            ELSE IF first_frame.codec # "h264"
            THEN [inst1 EXCEPT !.o22 = Append(@, [corrected |-> first_frame.codec,
                                                    score |-> score])]
            ELSE [inst1 EXCEPT !.o22 = Append(@, score)]

RECURSIVE PvCallbacks(_, _)
PvCallbacks(inst, calls) ==
    IF calls = <<>> \/ inst.err # "none" THEN inst
    ELSE PvCallbacks(PvModelCallback(inst, Head(calls)), Tail(calls))

\* the codecs in the window at each invocation of model_callback that
\* PvCallbacks makes (the invocations up to the first that raises), and the
\* coding resolutions of the frames of the chunk that get_chunk returns to it
RECURSIVE PvInvocations(_, _)
PvInvocations(inst, calls) ==
    IF calls = <<>> \/ inst.err # "none" THEN <<>>
    ELSE LET call == Head(calls)
             output_sample_index == LastIndexBefore(call.frames, call.ts)
             chunk == IF output_sample_index = 0 THEN <<>>
                      ELSE get_chunk(call.frames, output_sample_index, "video", FALSE)
         IN  <<[ts |-> call.ts,
                codecs |-> {call.frames[i].codec : i \in 1..Len(call.frames)},
                chunk_resolutions |-> {chunk[i].resolution : i \in 1..Len(chunk)}]>>
             \o PvInvocations(PvModelCallback(inst, call), Tail(calls))

\* the frame loop of the mode selection: the mode after the frames of one
\* segment, or the error for a frame without frameType or frameSize
RECURSIVE ModeOfFrames(_, _, _)
ModeOfFrames(frames, i, mode) ==
    IF i > Len(frames) THEN [mode |-> mode, err |-> "none"]
    ELSE IF "frameType" \notin DOMAIN frames[i] \/ "frameSize" \notin DOMAIN frames[i]
    THEN [mode |-> mode, err |-> P1203Error]
    ELSE IF "qpValues" \in DOMAIN frames[i]
    THEN ModeOfFrames(frames, i + 1, 3)
    ELSE [mode |-> 1, err |-> "none"]

\* the segment loop of the mode selection in P1203Pv.calculate
RECURSIVE SelectMode(_, _, _)
SelectMode(segments, k, mode) ==
    IF k > Len(segments) THEN [mode |-> mode, err |-> "none"]
    ELSE IF "frames" \notin DOMAIN segments[k]
    THEN [mode |-> 0, err |-> "none"]
    ELSE LET r == ModeOfFrames(segments[k].frames, 1, mode)
         IN  IF r.err # "none" THEN r ELSE SelectMode(segments, k + 1, r.mode)

\* the check for differing or wrong codecs in P1203Pv.calculate
CodecCheck(segments, mode) ==
    LET codecs == {segments[k].codec : k \in 1..Len(segments)}
    IN  IF \E c \in codecs : c \notin {"h264", "h265", "hevc", "vp9"} THEN P1203Error
        ELSE IF mode # 0 /\ \E c \in codecs : c # "h264" THEN P1203Error
        ELSE "none"

\* P1203Pv.__init__
P1203Pv(segments, display_res) ==
    [segments |-> segments, display_res |-> display_res, o22 |-> <<>>, mode |-> -1,
     err |-> "none", pc |-> "new", seg |-> 0, i |-> 0, num_frames |-> 0, dts |-> Exact(0)]

\* -------------------------------------------------- Pv sessions (SpecPv)
MaxVideoSegments == 2
MaxVideoDur == 13

VideoCodecs == {"h264", "hevc"}

VideoBitrates == {500, 2000}

VideoFps == {1, 2}

\* 6 s and 12 s
VideoDurations == {19200, 38400}

\* what a segment says about its frames: nothing, type and size, or type,
\* size and QP values
FrameKinds == {"absent", "size", "qp"}

Merge(r1, r2) ==
    [k \in DOMAIN r1 \cup DOMAIN r2 |-> IF k \in DOMAIN r2 THEN r2[k] ELSE r1[k]]

\* the frames of a segment: one I frame, then P frames; with QP values also
\* I frames only ("qp_intra") and one P frame, then I frames ("qp_p_then_i")
InputFrames(kind, n) ==
    [i \in 1..n |->
        LET frameType == IF kind = "qp_intra" THEN "I"
                         ELSE IF kind = "qp_p_then_i"
                         THEN (IF i = 1 THEN "P" ELSE "I")
                         ELSE (IF i = 1 THEN "I" ELSE "P")
            base == [frameType |-> frameType, frameSize |-> 1000]
        IN  IF kind \in {"qp", "qp_intra", "qp_p_then_i"}
            THEN Merge(base, [qpValues |-> <<26>>]) ELSE base]

VideoSegment(codec, bitrate, fps, duration, rep, kind) ==
    LET base == [codec |-> codec, bitrate |-> bitrate, fps |-> fps,
                 duration |-> duration, resolution |-> "1920x1080"]
        withrep == IF rep = "absent" THEN base
                   ELSE Merge(base, [representation |-> <<"rep", rep>>])
    IN  IF kind = "absent" THEN withrep
        ELSE Merge(withrep,
                   [frames |-> InputFrames(kind, (duration * fps) \div TicksPerSec)])

VideoSegments ==
    {VideoSegment(c, b, f, d, rep, kind) :
        c \in VideoCodecs, b \in VideoBitrates, f \in VideoFps, d \in VideoDurations,
        rep \in {"absent", "r1"}, kind \in FrameKinds}

VideoSessions ==
    {s \in UNION {[1..n -> VideoSegments] : n \in 1..MaxVideoSegments} :
        SumDuration(s) <= Sec(MaxVideoDur)}

\* one h264 segment whose frames carry QP values and are I frames only, or
\* one P frame followed by I frames
IntraSessions ==
    {<<VideoSegment("h264", b, f, d, "absent", kind)>> :
        b \in VideoBitrates, f \in VideoFps, d \in VideoDurations,
        kind \in {"qp_intra", "qp_p_then_i"}}

\* two 6 s segments without representation that differ in nothing but the
\* coding resolution
ResolutionSessions ==
    {<<s, [s EXCEPT !.resolution = "1280x720"]>> :
        s \in {v \in VideoSegments :
                 "representation" \notin DOMAIN v /\ v.duration = Sec(6)}}

InitPv ==
    /\ \E segments \in VideoSessions \cup ResolutionSessions \cup IntraSessions :
         pv = P1203Pv(segments, "1920x1080")
    /\ mw = MeasurementWindow
    /\ cb_log = <<>>
    /\ err = "none"
    /\ drv = Idle
    /\ pa = Idle
    /\ pq = Idle
    /\ sa = Idle

PvReturn(inst) == [inst EXCEPT !.pc = IF inst.err = "none" THEN "done" ELSE "error"]

\* calculate(), up to the frame generation: window, mode, codec check
PvCalculate ==
    /\ pv.pc = "new"
    /\ mw' = set_score_callback(MeasurementWindow, "callable").mw
    /\ LET m == SelectMode(pv.segments, 1, 0)
           e == IF m.err # "none" THEN m.err ELSE CodecCheck(pv.segments, m.mode)
       IN  pv' = IF e # "none" THEN PvReturn([pv EXCEPT !.mode = m.mode, !.err = e])
                 ELSE [pv EXCEPT !.mode = m.mode, !.pc = "segment", !.seg = 1,
                                 !.dts = Exact(0)]
    /\ UNCHANGED <<cb_log, err, drv, pa, pq, sa>>

\* head of one iteration of the segment loop
PvSegment ==
    /\ pv.pc = "segment"
    /\ pv.seg <= Len(pv.segments)
    /\ LET segment == pv.segments[pv.seg]
       IN  pv' = [pv EXCEPT
                    !.pc = "frames",
                    !.i = 0,
                    !.num_frames = IF pv.mode = 0
                                   THEN (segment.duration * segment.fps) \div TicksPerSec
                                   ELSE Len(segment.frames)]
    /\ UNCHANGED <<mw, cb_log, err, drv, pa, pq, sa>>

\* the frame dict built in one iteration of the frame loop
PvMakeFrame(segment, mode, i, dts) ==
    LET base == [duration |-> Exact(TicksPerSec \div segment.fps), dts |-> dts,
                 bitrate |-> segment.bitrate, codec |-> segment.codec,
                 fps |-> segment.fps, resolution |-> segment.resolution]
        sized == IF mode = 0 THEN base
                 ELSE Merge(base, [size |-> segment.frames[i].frameSize,
                                   type |-> segment.frames[i].frameType])
        withrep == IF "representation" \in DOMAIN segment
                   THEN Merge(sized, [representation |-> segment.representation])
                   ELSE sized
    IN  IF mode # 3 THEN [err |-> "none", frame |-> withrep]
        ELSE IF "qpValues" \notin DOMAIN segment.frames[i] THEN [err |-> "KeyError"]
        ELSE IF segment.frames[i].qpValues = <<>> THEN [err |-> P1203Error]
        ELSE [err |-> "none",
              frame |-> Merge(withrep, [qpValues |-> segment.frames[i].qpValues])]

\* one iteration of the frame loop, or its exit
PvFrame ==
    /\ pv.pc = "frames"
    /\ IF pv.i >= pv.num_frames
       THEN /\ pv' = [pv EXCEPT !.pc = "segment", !.seg = @ + 1]
            /\ UNCHANGED <<mw, cb_log>>
       ELSE LET segment == pv.segments[pv.seg]
                f == PvMakeFrame(segment, pv.mode, pv.i + 1, pv.dts)
            IN  IF f.err # "none"
                THEN /\ pv' = PvReturn([pv EXCEPT !.err = f.err])
                     /\ UNCHANGED <<mw, cb_log>>
                ELSE LET r == add_frame(mw, f.frame)
                         inst1 == PvCallbacks([pv EXCEPT !.err = r.err], r.calls)
                     IN  /\ mw' = r.mw
                         /\ cb_log' = cb_log \o PvInvocations(pv, r.calls)
                         /\ pv' = IF inst1.err # "none" THEN PvReturn(inst1)
                                  ELSE [inst1 EXCEPT
                                          !.i = @ + 1,
                                          !.dts = FltAdd(@, f.frame.duration)]
    /\ UNCHANGED <<err, drv, pa, pq, sa>>

\* measurementwindow.stream_finished() and the return of calculate()
PvStreamFinished ==
    /\ pv.pc = "segment"
    /\ pv.seg > Len(pv.segments)
    /\ LET r == stream_finished(mw)
           inst1 == PvCallbacks(pv, r.calls)
       IN  /\ mw' = r.mw
           /\ cb_log' = cb_log \o PvInvocations(pv, r.calls)
           /\ pv' = PvReturn(IF inst1.err = "none" THEN [inst1 EXCEPT !.err = r.err]
                             ELSE inst1)
    /\ UNCHANGED <<err, drv, pa, pq, sa>>

NextPv ==
    \/ PvCalculate
    \/ PvSegment
    \/ PvFrame
    \/ PvStreamFinished

SpecPv == InitPv /\ [][NextPv]_vars

\* ---------------------------------------------------------------- P1203Pq
\* Python's None
None == [py |-> "None"]

Min(a, b) == IF a < b THEN a ELSE b

Max(a, b) == IF a > b THEN a ELSE b

\* ------------------------------------------------------- float arithmetic
\* The scores, weights and coefficients of the integration module are floats.
\* They are kept in fixed point: the integer v stands for v / Fx. Products
\* and quotients are truncated to that precision, exp and log are computed
\* from their series; every intermediate value stays below 2^31.
Fx == 1000 * 1000

FxOf(n) == n * Fx

\* a * b
FxMul(a, b) ==
    LET a1 == a \div 1000
        a0 == a % 1000
        b1 == b \div 1000
        b0 == b % 1000
    IN  a1 * b1 + (a1 * b0 + a0 * b1 + (a0 * b0) \div 1000) \div 1000

\* n further decimal digits of q + r / b, for b > 0
RECURSIVE FxDivDigits(_, _, _, _)
FxDivDigits(q, r, b, n) ==
    IF n = 0 THEN q
    ELSE FxDivDigits(q * 10 + (r * 10) \div b, (r * 10) % b, b, n - 1)

\* a / b, for b # 0
FxDiv(a, b) ==
    IF b < 0 THEN FxDivDigits((-a) \div (-b), (-a) % (-b), -b, 6)
    ELSE FxDivDigits(a \div b, a % b, b, 6)

\* v * 2^k
RECURSIVE FxScale2(_, _)
FxScale2(v, k) ==
    IF k = 0 THEN v
    ELSE IF k > 0 THEN FxScale2(v * 2, k - 1)
    ELSE FxScale2(v \div 2, k + 1)

\* log(2)
Ln2 == 693147

\* sum + term + term * r / n + term * r^2 / (n (n + 1)) + ...
RECURSIVE FxExpSeries(_, _, _, _)
FxExpSeries(r, term, n, sum) ==
    IF term = 0 THEN sum
    ELSE FxExpSeries(r, FxMul(term, r) \div n, n + 1, sum + term)

\* np.exp(x) = 2^k * exp(r) with x = k * log(2) + r and 0 <= r < log(2)
FxExp(x) ==
    LET k == x \div Ln2
        r == x - k * Ln2
    IN  FxScale2(FxExpSeries(r, Fx, 1, 0), k)

\* 2 * (z + z^3 / 3 + z^5 / 5 + ...), from the term z^n on
RECURSIVE FxAtanhSeries(_, _, _, _)
FxAtanhSeries(z2, power, n, sum) ==
    IF power = 0 THEN 2 * sum
    ELSE FxAtanhSeries(z2, FxMul(power, z2), n + 2, sum + power \div n)

\* np.log(x) for x > 0: x = 2^k * m with 1 <= m < 2 and
\* log(m) = 2 * atanh((m - 1) / (m + 1))
RECURSIVE FxLogNorm(_, _)
FxLogNorm(x, k) ==
    IF x >= 2 * Fx THEN FxLogNorm(x \div 2, k + 1)
    ELSE IF x < Fx THEN FxLogNorm(x * 2, k - 1)
    ELSE LET z == FxDiv(x - Fx, x + Fx)
         IN  k * Ln2 + FxAtanhSeries(FxMul(z, z), z, 1, 0)

FxLog(x) == FxLogNorm(x, 0)

\* np.log10(x)
FxLog10(x) == FxDiv(FxLog(x), FxLog(FxOf(10)))

\* the loop over zip(l_buff, p_buff) in P1203Pq.__init__, from pair k on
RECURSIVE FilterStalling(_, _, _, _, _)
FilterStalling(l_buff, p_buff, k, max_dur, kept) ==
    IF k > Min(Len(l_buff), Len(p_buff)) THEN kept
    ELSE LET l == l_buff[k]
             p == p_buff[k]
         IN  IF p > max_dur THEN FilterStalling(l_buff, p_buff, k + 1, max_dur, kept)
             ELSE IF l = 0 THEN FilterStalling(l_buff, p_buff, k + 1, max_dur, kept)
             ELSE FilterStalling(l_buff, p_buff, k + 1, max_dur,
                                 [l_buff |-> Append(kept.l_buff, l),
                                  p_buff |-> Append(kept.p_buff, p)])

\* P1203Pq.__init__
P1203Pq(O21, O22, l_buff, p_buff) ==
    LET has_audio == Len(O21) > 0
        has_video == Len(O22) > 0
        max_dur == IF has_audio THEN Min(Len(O21), Len(O22)) ELSE Len(O22)
        kept == FilterStalling(l_buff, p_buff, 1, max_dur,
                               [l_buff |-> <<>>, p_buff |-> <<>>])
    IN  [pc |-> "constructed", O21 |-> O21, O22 |-> O22,
         has_audio |-> has_audio, has_video |-> has_video,
         l_buff |-> kept.l_buff, p_buff |-> kept.p_buff,
         args |-> [l_buff |-> l_buff, p_buff |-> p_buff],
         err |-> "none", result |-> None]

\* P1203Pq.COEFFS of the stalling model
c_ref7 == 484129

c_ref8 == 10000000

s1 == 9351587

s2 == 918908

s3 == 11056756

\* np.log(0.5)
LnHalf == 0 - Ln2

\* utils.exponential
exponential(a, b, c, d, x) ==
    b + FxMul(a - b, FxExp(FxDiv(FxMul(-(x - c), LnHalf), -(d - c))))

\* the stalling features of the events (l_buff[k], p_buff[k])
StallingFeatures(l_buff, p_buff, duration) ==
    LET n == Min(Len(p_buff), Len(l_buff))
        total_stall_len ==
            SumFrom([k \in 1..n |->
                        l_buff[k] * exponential(Fx, c_ref7, 0, c_ref8,
                                                FxOf(duration - p_buff[k]))], 1)
        num_stalls == Len(l_buff)
        avg_stall_interval ==
            IF num_stalls > 1
            THEN FxOf(SumFrom([k \in 1..(Len(p_buff) - 1) |-> p_buff[k + 1] - p_buff[k]], 1))
                     \div (Len(l_buff) - 1)
            ELSE 0
    IN  [total_stall_len |-> total_stall_len, num_stalls |-> num_stalls,
         avg_stall_interval |-> avg_stall_interval]

\* the features of the events as they were passed to the constructor
calc_stalling_features_unfiltered(inst, duration) ==
    StallingFeatures(inst.args.l_buff, inst.args.p_buff, duration)

\* P1203Pq._calc_stalling_features
calc_stalling_features(inst, duration) ==
    StallingFeatures(inst.l_buff, inst.p_buff, duration)

\* P1203Pq._calc_stalling_impact
calc_stalling_impact(num_stalls, total_stall_len, duration, avg_stall_interval) ==
    FxMul(FxMul(FxExp(FxDiv(-FxOf(num_stalls), s1)),
                FxExp(FxDiv((-total_stall_len) \div duration, s2))),
          FxExp(FxDiv((-avg_stall_interval) \div duration, s3)))

\* the duration P1203Pq.calculate works with
PqDuration(inst) ==
    IF ~inst.has_audio THEN Len(inst.O22)
    ELSE IF Len(inst.O21) > Len(inst.O22) THEN Len(inst.O22)
    ELSE Len(inst.O21)

\* stalling_impact as P1203Pq.calculate computes it
stalling_impact(inst) ==
    LET duration == PqDuration(inst)
        features == calc_stalling_features(inst, duration)
    IN  calc_stalling_impact(features.num_stalls, features.total_stall_len,
                             duration, features.avg_stall_interval)

\* P1203Pq.COEFFS of the audiovisual integration, in units of 1e-6
av1 == -691

av2 == 153743

av3 == 971539

av4 == 24618

\* t1 and t2 in units of 1e-9, so that the weight w1 keeps six digits
t1 == 6666200

t2 == 40402

t3 == 156498

t4 == 143180

t5 == 23864

c1 == 1874036

c2 == 7854165

c23 == 18538

comp1 == 677561

comp2 == -8055333

comp3 == 173326

comp4 == -10356

\* the elements of seq
Range(seq) == {seq[i] : i \in 1..Len(seq)}

\* P1203Pq._calc_video_quality_change_rate, for O22 samples that are integers
calc_video_quality_change_rate(O22, duration) ==
    FxOf(Cardinality({i \in 2..duration : O22[i] # O22[i - 1]})) \div duration

\* P1203Pq._calc_034_035_baseline, for O21 and O22 samples that are integers
calc_034_035_baseline(O21, O22, duration) ==
    LET O34 == [t \in 1..duration |->
                   Max(Min(av1 + av2 * O21[t] + av3 * O22[t] + av4 * O21[t] * O22[t],
                           FxOf(5)), Fx)]
        w1(t) == t1 + FxMul(t2, FxExp(FxDiv(FxOf(t - 1) \div duration, t3)))
        w2(t) == t4 - FxMul(t5, O34[t])
        O35_numerator == SumFrom([t \in 1..duration |-> FxMul(FxMul(w1(t), w2(t)), O34[t])], 1)
        O35_denominator == SumFrom([t \in 1..duration |-> FxMul(w1(t), w2(t))], 1)
    IN  [O34 |-> O34, O35_baseline |-> FxDiv(O35_numerator, O35_denominator)]

\* P1203Pq._calc_qdir, for O22 samples that are integers.  The moving
\* average is computed exactly; the floating-point result classifies a step
\* the same way unless the two averages differ by exactly 0.2 and one of
\* them is rounded, which the sessions of this module avoid.
calc_qdir(O22) ==
    LET ma_order == 5
        step == 3
        n == Len(O22)
        padded_O22 == [i \in 1..(ma_order - 1) |-> O22[1]] \o O22
                          \o [i \in 1..(ma_order - 1) |-> O22[n]]
        ma_filtered == [i \in 1..(n + ma_order - 1) |->
                           FxOf(SumFrom(SubSeq(padded_O22, i, i + ma_order - 1), 1))
                               \div ma_order]
        thresh == Fx \div 5
        pairs == (Len(ma_filtered) - 1) \div step
        QC == [k \in 1..pairs |->
                  LET diff == ma_filtered[step * k + 1] - ma_filtered[step * (k - 1) + 1]
                  IN  IF diff > thresh THEN 1
                      ELSE IF -thresh < diff /\ diff < thresh THEN 0
                      ELSE -1]
        nonzero_before(k) == {j \in 1..(k - 1) : QC[j] # 0}
        \* the indices (from 0) that the loop appends to lens
        lens == {k - 1 : k \in {k \in 1..pairs :
                    /\ QC[k] # 0
                    /\ \A j \in nonzero_before(k) :
                         (\A i \in nonzero_before(k) : i <= j) => QC[j] # QC[k]}}
        marks == lens \cup {0, pairs}
        distances == {b - a : <<a, b>> \in {m \in marks \X marks :
                        m[1] <= m[2] /\ \A x \in marks : ~(m[1] < x /\ x < m[2])}}
        longest_period == IF lens # {}
                          THEN step * (CHOOSE d \in distances : \A e \in distances : e <= d)
                          ELSE pairs * step
    IN  [ma_filtered |-> ma_filtered, QC |-> QC,
         q_dir_changes_longest |-> longest_period,
         q_dir_changes_tot |-> Cardinality(lens)]

\* P1203Pq._calc_and_test_osc
calc_and_test_osc(duration, q_dir_changes_longest, q_dir_changes_tot, vid_qual_spread) ==
    LET osc_test == 4 * q_dir_changes_longest < duration /\ q_dir_changes_longest < 30
        q_diff == Max(0, Fx + FxLog10(vid_qual_spread + 1000))
    IN  IF osc_test
        THEN Max(0, Min(FxMul(q_diff, FxExp(comp1 * q_dir_changes_tot + comp2)),
                        3 * (Fx \div 2)))
        ELSE 0

\* np.percentile(values, q, method='linear') for q a multiple of 10
percentile(values, q) ==
    LET n == Len(values)
        \* the element at index k (from 0) of sorted(values)
        sorted(k) == CHOOSE v \in Range(values) :
                        /\ Cardinality({i \in 1..n : values[i] < v}) <= k
                        /\ k < Cardinality({i \in 1..n : values[i] <= v})
        tenths == (n - 1) * (q \div 10)
        lower == tenths \div 10
        upper == Min(lower + 1, n - 1)
    IN  sorted(lower) + ((sorted(upper) - sorted(lower)) * (tenths % 10)) \div 10

\* the test of Eq. 26 taken as always passed
adapt_test_always(q_dir_changes_longest, duration) == TRUE

\* adapt_test of P1203Pq.calculate: (q_dir_changes_longest / duration) < 0.25
adapt_test(q_dir_changes_longest, duration) ==
    4 * q_dir_changes_longest < duration

\* O35 as P1203Pq.calculate computes it without Amendment 1, with the terms
\* it is made of, for O21 and O22 samples that are integers
PqO35(O21, O22, duration) ==
    LET vid_qual_spread ==
            FxOf((CHOOSE x \in Range(O22) : \A y \in Range(O22) : y <= x)
                 - (CHOOSE x \in Range(O22) : \A y \in Range(O22) : x <= y))
        vid_qual_change_rate == calc_video_quality_change_rate(O22, duration)
        q_dir == calc_qdir(O22)
        base == calc_034_035_baseline(O21, O22, duration)
        O35_baseline == base.O35_baseline
        O34_diff == [i \in 1..duration |->
                        FxMul(base.O34[i] - O35_baseline,
                              exponential(Fx, c1, 0, c2, FxOf(duration - i)))]
        neg_perc == percentile(O34_diff, 10)
        negative_bias == FxMul(Max(0, -neg_perc), c23)
        osc_comp == calc_and_test_osc(duration, q_dir.q_dir_changes_longest,
                                      q_dir.q_dir_changes_tot, vid_qual_spread)
        adapt_comp == IF adapt_test(q_dir.q_dir_changes_longest, duration)
                      THEN Max(0, Min(FxMul(FxMul(comp3, vid_qual_spread),
                                            vid_qual_change_rate) + comp4,
                                      Fx \div 2))
                      ELSE 0
    IN  [vid_qual_spread |-> vid_qual_spread,
         vid_qual_change_rate |-> vid_qual_change_rate,
         q_dir_changes_longest |-> q_dir.q_dir_changes_longest,
         O35_baseline |-> O35_baseline, negative_bias |-> negative_bias,
         osc_comp |-> osc_comp, adapt_comp |-> adapt_comp,
         O35 |-> O35_baseline - negative_bias - osc_comp - adapt_comp]

\* P1203Pq.calculate: the instance afterwards. O23 is computed; O34, O35 and
\* O46 are kept as the terms they are computed from.
PqCalculate(inst) ==
    IF ~inst.has_video
    THEN [inst EXCEPT !.pc = "error", !.err = P1203Error]
    ELSE LET duration == PqDuration(inst)
             O21 == IF ~inst.has_audio THEN [t \in 1..duration |-> 5] ELSE inst.O21
             stalling == [l_buff |-> inst.l_buff, p_buff |-> inst.p_buff,
                          duration |-> duration]
             O34 == [t \in 1..duration |-> <<O21[t], inst.O22[t]>>]
         IN  [inst EXCEPT
                !.pc = "done",
                !.O21 = O21,
                !.result = [O23 |-> Fx + 4 * stalling_impact(inst),
                            O34 |-> O34,
                            O35 |-> [O34 |-> O34, O22 |-> inst.O22],
                            O46 |-> [O21 |-> O21, O22 |-> inst.O22,
                                     stalling |-> stalling]]]

\* -------------------------------------------------- Pq sessions (SpecPq)
MaxScores == 2
MaxStalls == 2

Scores == {2, 4}

StallLengths == {-1, 0, 2}

StallPositions == {-1, 1, 4}

SeqsUpTo(S, n) == UNION {[1..m -> S] : m \in 0..n}

\* the length of the long sessions, in seconds
LongDur == 45

\* long sessions: O21 is constant and O22 switches between two levels every
\* period seconds
LongSessions ==
    {[O21 |-> [t \in 1..LongDur |-> audio],
      O22 |-> [t \in 1..LongDur |->
                 IF ((t - 1) \div period) % 2 = 0 THEN levels[1] ELSE levels[2]]] :
        audio \in {1, 5}, levels \in {<<1, 5>>, <<2, 4>>}, period \in {1, 4}}

\* the length of the adaptive sessions, in seconds
AdaptiveDur == 30

\* adaptive sessions: O21 is constant and O22 is at a high level for the
\* first 15 s and at a low level from then on
AdaptiveSessions ==
    {[O21 |-> [t \in 1..AdaptiveDur |-> audio],
      O22 |-> [t \in 1..AdaptiveDur |-> IF t <= 15 THEN levels[1] ELSE levels[2]]] :
        audio \in {1, 5}, levels \in {<<5, 1>>, <<5, 2>>, <<4, 1>>}}

\* sessions whose O22 is one sample longer than O21: O22 alternates between
\* 3 and 5 every second for the length of O21, then comes the extra sample
TailSessions ==
    {[O21 |-> [t \in 1..LongDur |-> audio],
      O22 |-> [t \in 1..LongDur |-> IF t % 2 = 1 THEN 3 ELSE 5] \o <<tail>>] :
        audio \in {1, 5}, tail \in {1, 5}}

\* the O21 and O22 vectors of a session
PqSessions ==
    {[O21 |-> O21, O22 |-> O22] :
        O21 \in SeqsUpTo(Scores, MaxScores), O22 \in SeqsUpTo(Scores, MaxScores)}
    \cup LongSessions
    \cup AdaptiveSessions
    \cup TailSessions

InitPq ==
    /\ \E session \in PqSessions,
          l_buff \in SeqsUpTo(StallLengths, MaxStalls),
          p_buff \in SeqsUpTo(StallPositions, MaxStalls) :
         pq = [pc |-> "args", O21 |-> session.O21, O22 |-> session.O22,
               l_buff |-> l_buff, p_buff |-> p_buff]
    /\ mw = MeasurementWindow
    /\ cb_log = <<>>
    /\ err = "none"
    /\ drv = Idle
    /\ pa = Idle
    /\ pv = Idle
    /\ sa = Idle

\* P1203Pq(O21, O22, l_buff, p_buff)
PqNew ==
    /\ pq.pc = "args"
    /\ pq' = P1203Pq(pq.O21, pq.O22, pq.l_buff, pq.p_buff)
    /\ UNCHANGED <<mw, cb_log, err, drv, pa, pv, sa>>

\* calculate() on the constructed instance
PqCalculateCall ==
    /\ pq.pc = "constructed"
    /\ pq' = PqCalculate(pq)
    /\ UNCHANGED <<mw, cb_log, err, drv, pa, pv, sa>>

NextPq ==
    \/ PqNew
    \/ PqCalculateCall

SpecPq == InitPq /\ [][NextPq]_vars

\* -------------------------------------------------------- P1203Standalone
\* Two classes carry this name: the one the package exports
\* (p1203_standalone.py) and the one of itu_p1203.py.
Impls == {"p1203_standalone", "itu_p1203"}

\* the keyword parameters of P1203Pv.__init__ and of P1203Pv.calculate
PvInitParams == {"segments", "display_res", "stream_id"}

PvCalculateParams == {}

\* the keyword arguments calculate_pv passes to them
PvInitArgs(impl) ==
    IF impl = "p1203_standalone"
    THEN {"segments", "display_res", "device", "stream_id"}
    ELSE {"segments", "display_res", "stream_id"}

PvCalculateArgs(impl) == IF impl = "p1203_standalone" THEN {"fast_mode"} ELSE {}

\* P1203Standalone.__init__
P1203Standalone(impl, input_report) ==
    [impl |-> impl, input_report |-> input_report,
     audio |-> None, video |-> None, integration |-> None, overall_result |-> None,
     pc |-> "ready", outer |-> "none", last |-> "init", calls |-> 0,
     trace |-> <<>>, err |-> "none", ret |-> None]

\* a method of the instance returns value, or raises e; inside
\* calculate_complete a return continues at the next statement (pc next)
SaReturn(s, next, value, e) ==
    IF e # "none"
    THEN [s EXCEPT !.pc = "ready", !.outer = "none", !.err = e, !.ret = None]
    ELSE IF s.outer = "calculate_complete" /\ next # "ready"
    THEN [s EXCEPT !.pc = next]
    ELSE [s EXCEPT !.pc = "ready", !.outer = "none", !.err = "none", !.ret = value]

\* calculate_pa, up to the call of Pa(...).calculate() or to its own return
SaBeginPa(s0) ==
    LET s == [s0 EXCEPT !.trace = Append(@, "calculate_pa")]
        report == s.input_report
    IN  IF "I11" \in DOMAIN report
        THEN LET segments == IF "segments" \in DOMAIN report.I11
                             THEN report.I11.segments ELSE <<>>
             IN  /\ sa' = [s EXCEPT !.pc = "calculate_pa"]
                 /\ pa' = [pc |-> "session", input |-> segments, k |-> 1,
                           results |-> <<>>, fast_mode |-> FALSE,
                           inst |-> P1203Pa(segments)]
        ELSE IF "O21" \in DOMAIN report
        THEN LET audio == [audio |-> [streamId |-> -1, O21 |-> report.O21]]
             IN  /\ sa' = SaReturn([s EXCEPT !.audio = audio], "after_pa", audio, "none")
                 /\ pa' = pa
        ELSE /\ sa' = SaReturn(s, "after_pa", None, P1203Error)
             /\ pa' = pa

\* calculate_pv, up to the call of Pv(...).calculate() or to its own return
SaBeginPv(s0) ==
    LET s == [s0 EXCEPT !.trace = Append(@, "calculate_pv")]
        report == s.input_report
    IN  IF "I13" \in DOMAIN report
        THEN IF "segments" \notin DOMAIN report.I13
             THEN /\ sa' = SaReturn(s, "after_pv", None, P1203Error)
                  /\ UNCHANGED <<pv, cb_log>>
             ELSE IF ~(PvInitArgs(s.impl) \subseteq PvInitParams)
                     \/ ~(PvCalculateArgs(s.impl) \subseteq PvCalculateParams)
             THEN /\ sa' = SaReturn(s, "after_pv", None, "TypeError")
                  /\ UNCHANGED <<pv, cb_log>>
             ELSE LET display_res ==
                        IF "IGen" \in DOMAIN report /\ "displaySize" \in DOMAIN report.IGen
                        THEN report.IGen.displaySize ELSE "1920x1080"
                  IN  /\ sa' = [s EXCEPT !.pc = "calculate_pv"]
                      /\ pv' = P1203Pv(report.I13.segments, display_res)
                      /\ cb_log' = <<>>
        ELSE IF "O22" \in DOMAIN report
        THEN LET video == [video |-> [streamId |-> -1, O22 |-> report.O22]]
             IN  /\ sa' = SaReturn([s EXCEPT !.video = video], "after_pv", video, "none")
                 /\ UNCHANGED <<pv, cb_log>>
        ELSE /\ sa' = SaReturn(s, "after_pv", None, P1203Error)
             /\ UNCHANGED <<pv, cb_log>>

\* l_buff and p_buff with only the first position moved to zero
StallingBuffers_first_only(report) ==
    LET stalling == IF "I23" \in DOMAIN report /\ "stalling" \in DOMAIN report.I23
                    THEN report.I23.stalling ELSE <<>>
    IN  [l_buff |-> [k \in 1..Len(stalling) |-> stalling[k][2]],
         p_buff |-> [k \in 1..Len(stalling) |-> IF k = 1 THEN 0 ELSE stalling[k][1]]]

\* l_buff and p_buff as calculate_integration derives them from I23
StallingBuffers(report) ==
    LET stalling == IF "I23" \in DOMAIN report /\ "stalling" \in DOMAIN report.I23
                    THEN report.I23.stalling ELSE <<>>
        shift == IF stalling # <<>> /\ stalling[1][1] # 0 THEN stalling[1][1] ELSE 0
    IN  [l_buff |-> [k \in 1..Len(stalling) |-> stalling[k][2]],
         p_buff |-> [k \in 1..Len(stalling) |-> stalling[k][1] - shift]]

\* calculate_integration: the error it raises, the integration slot and the
\* Pq instance afterwards
calculate_integration(s, q) ==
    LET buffers == StallingBuffers(s.input_report)
        missing == IF s.impl = "p1203_standalone" THEN P1203Error ELSE "TypeError"
    IN  IF s.audio = None \/ s.video = None
        THEN [err |-> missing, integration |-> s.integration, pq |-> q]
        ELSE LET inst == PqCalculate(P1203Pq(s.audio.audio.O21, s.video.video.O22,
                                              buffers.l_buff, buffers.p_buff))
             IN  [err |-> inst.err,
                  integration |-> IF inst.err = "none" THEN inst.result ELSE s.integration,
                  pq |-> inst]

\* the statements of calculate_complete after calculate_integration
CompleteResult(s) ==
    LET video == s.video.video
        stream_id == IF "streamId" \in DOMAIN video THEN video.streamId ELSE -1
        mode == IF "streamId" \in DOMAIN video /\ "mode" \in DOMAIN video
                THEN video.mode ELSE -1
    IN  Merge(s.integration, [streamId |-> stream_id, mode |-> mode, date |-> "today"])

\* ------------------------------------------- Standalone sessions (SpecSA)
\* A caller makes up to MaxSaCalls calls of the public methods on one
\* instance; an exception leaves the instance to the caller.
MaxSaCalls == 2

SaAudioSessions ==
    {<<[codec |-> "aaclc", bitrate |-> 128, duration |-> 2 * TicksPerSec]>>,
     <<[codec |-> "aac", bitrate |-> 64, duration |-> 2 * TicksPerSec]>>}

SaVideoSessions ==
    {<<VideoSegment("h264", 500, 1, 2 * TicksPerSec, "absent", kind)>> :
        kind \in FrameKinds}
    \cup {<<VideoSegment("hevc", 2000, 2, 2 * TicksPerSec, "absent", "absent")>>}

\* I23.stalling, a list of [position, duration]: no stalling, one event of
\* 2 s at media time 1 s, two events the first of which is at media time 0,
\* and two events the first of which is at media time 1 s
SaStalling ==
    {<<>>, <<<<1, 2>>>>, <<<<0, 1>>, <<1, 2>>>>, <<<<1, 1>>, <<2, 2>>>>}

InputReports ==
    {[I11 |-> [streamId |-> 1, segments |-> a],
      I13 |-> [streamId |-> 1, segments |-> v],
      I23 |-> [streamId |-> 1, stalling |-> st],
      IGen |-> [device |-> "pc", displaySize |-> "1920x1080"]] :
        a \in SaAudioSessions, v \in SaVideoSessions, st \in SaStalling}
    \cup
    {[O21 |-> <<4, 4>>, O22 |-> <<4, 2>>,
      I23 |-> [streamId |-> 1, stalling |-> st],
      IGen |-> [device |-> "pc", displaySize |-> "1920x1080"]] : st \in SaStalling}

InitSA ==
    /\ \E impl \in Impls, input_report \in InputReports :
         sa = P1203Standalone(impl, input_report)
    /\ mw = MeasurementWindow
    /\ cb_log = <<>>
    /\ err = "none"
    /\ drv = Idle
    /\ pa = Idle
    /\ pv = Idle
    /\ pq = Idle

\* the caller calls method: the instance as the method finds it
SaCalled(method) ==
    [sa EXCEPT !.calls = @ + 1, !.last = method, !.trace = <<>>,
               !.outer = method, !.err = "none", !.ret = None]

SaCallable == sa.pc = "ready" /\ sa.calls < MaxSaCalls

\* calculate_pa()
SaCalculatePa ==
    /\ SaCallable
    /\ SaBeginPa(SaCalled("calculate_pa"))
    /\ UNCHANGED <<mw, cb_log, err, drv, pv, pq>>

\* Pa(...).calculate() returns to calculate_pa
SaPaReturns ==
    /\ sa.pc = "calculate_pa"
    /\ pa.inst.pc \in {"done", "error"}
    /\ LET audio == [audio |-> [streamId |-> sa.input_report.I11.streamId,
                                O21 |-> pa.inst.o21]]
       IN  sa' = IF pa.inst.err # "none"
                 THEN SaReturn(sa, "after_pa", None, pa.inst.err)
                 ELSE SaReturn([sa EXCEPT !.audio = audio], "after_pa", audio, "none")
    /\ pa' = Idle
    /\ UNCHANGED <<mw, cb_log, err, drv, pv, pq>>

\* calculate_pv()
SaCalculatePv ==
    /\ SaCallable
    /\ SaBeginPv(SaCalled("calculate_pv"))
    /\ UNCHANGED <<mw, err, drv, pa, pq>>

\* Pv(...).calculate() returns to calculate_pv
SaPvReturns ==
    /\ sa.pc = "calculate_pv"
    /\ pv.pc \in {"done", "error"}
    /\ LET video == [video |-> [streamId |-> sa.input_report.I13.streamId,
                                mode |-> pv.mode, O22 |-> pv.o22]]
       IN  sa' = IF pv.err # "none"
                 THEN SaReturn(sa, "after_pv", None, pv.err)
                 ELSE SaReturn([sa EXCEPT !.video = video], "after_pv", video, "none")
    /\ pv' = Idle
    /\ UNCHANGED <<mw, cb_log, err, drv, pa, pq>>

\* calculate_integration()
SaCalculateIntegration ==
    /\ SaCallable
    /\ LET s == [SaCalled("calculate_integration") EXCEPT
                    !.trace = Append(@, "calculate_integration")]
           r == calculate_integration(s, pq)
       IN  /\ sa' = SaReturn([s EXCEPT !.integration = r.integration],
                             "ready", r.integration, r.err)
           /\ pq' = r.pq
    /\ UNCHANGED <<mw, cb_log, err, drv, pa, pv>>

\* calculate_complete(), up to the call it makes in calculate_pa
SaCalculateComplete ==
    /\ SaCallable
    /\ SaBeginPa(SaCalled("calculate_complete"))
    /\ UNCHANGED <<mw, cb_log, err, drv, pv, pq>>

\* calculate_complete() after calculate_pa has returned
SaCompletePv ==
    /\ sa.pc = "after_pa"
    /\ SaBeginPv(sa)
    /\ UNCHANGED <<mw, err, drv, pa, pq>>

\* calculate_complete() after calculate_pv has returned, to its end
SaCompleteIntegration ==
    /\ sa.pc = "after_pv"
    /\ LET s == [sa EXCEPT !.trace = Append(@, "calculate_integration")]
           r == calculate_integration(s, pq)
           with_integration == [s EXCEPT !.integration = r.integration]
           overall_result == CompleteResult(with_integration)
       IN  /\ pq' = r.pq
           /\ sa' = IF r.err # "none" THEN SaReturn(with_integration, "ready", None, r.err)
                    ELSE SaReturn(
                           [with_integration EXCEPT
                              !.overall_result = overall_result,
                              \* the exported class returns the integration
                              \* dict itself, with the new keys set on it
                              !.integration = IF s.impl = "p1203_standalone"
                                              THEN overall_result ELSE @],
                           "ready", overall_result, "none")
    /\ UNCHANGED <<mw, cb_log, err, drv, pa, pv>>

\* the steps of Pa(...).calculate() and Pv(...).calculate() under the
\* instance's calls
SaPaStep ==
    /\ sa.pc = "calculate_pa"
    /\ PaCalculateWindow \/ PaSegment \/ PaFrame \/ PaStreamFinished

SaPvStep ==
    /\ sa.pc = "calculate_pv"
    /\ PvCalculate \/ PvSegment \/ PvFrame \/ PvStreamFinished

NextSA ==
    \/ SaCalculatePa
    \/ SaPaReturns
    \/ SaCalculatePv
    \/ SaPvReturns
    \/ SaCalculateIntegration
    \/ SaCalculateComplete
    \/ SaCompletePv
    \/ SaCompleteIntegration
    \/ SaPaStep
    \/ SaPvStep

SpecSA == InitSA /\ [][NextSA]_vars

\* ------------------------------------------------ utils: MOS and R scales
\* R values are kept in units of 1/8 and MOS values in units of
\* 0.000007 / 512, in which mos_from_r is exact on such R values.
MOS_MAX == 358400000

MOS_MIN == 76800000

\* utils.mos_from_r
mos_from_r(Q) ==
    LET MOS == MOS_MIN + ((MOS_MAX - MOS_MIN) \div (100 * 8)) * Q
                   + Q * (Q - 60 * 8) * (100 * 8 - Q)
    IN  Min(MOS_MAX, Max(MOS, MOS_MIN))

\* the number of entries of R_FROM_MOS_KEYS and of R_FROM_MOS_VALUES
R_FROM_MOS_LEN == 389

\* R_FROM_MOS_VALUES[i - 1]: 0, 3.25, 3.5, 3.75, ..., 99.75, 100.0
R_FROM_MOS_VALUES(i) == IF i = 1 THEN 0 ELSE 22 + 2 * i

\* R_FROM_MOS_KEYS[i - 1]: each of the 389 literals is, to 15 decimals, the
\* value of the polynomial of mos_from_r at R_FROM_MOS_VALUES[i - 1]
R_FROM_MOS_KEYS(i) ==
    LET Q == R_FROM_MOS_VALUES(i)
    IN  MOS_MIN + ((MOS_MAX - MOS_MIN) \div (100 * 8)) * Q
            + Q * (Q - 60 * 8) * (100 * 8 - Q)

\* utils.r_from_mos; the result is in units of 1/8000000
r_from_mos(MOS0) ==
    LET MOS == IF MOS0 < MOS_MIN THEN MOS_MIN
               ELSE IF MOS0 > MOS_MAX THEN MOS_MAX ELSE MOS0
        unit == 1000 * 1000
    IN  IF \E i \in 1..R_FROM_MOS_LEN : R_FROM_MOS_KEYS(i) = MOS
        THEN unit * R_FROM_MOS_VALUES(
                        CHOOSE i \in 1..R_FROM_MOS_LEN :
                            /\ R_FROM_MOS_KEYS(i) = MOS
                            /\ \A j \in 1..(i - 1) : R_FROM_MOS_KEYS(j) # MOS)
        \* np.interp(MOS, R_FROM_MOS_KEYS, R_FROM_MOS_VALUES)
        ELSE LET i == CHOOSE i \in 1..(R_FROM_MOS_LEN - 1) :
                          R_FROM_MOS_KEYS(i) < MOS /\ MOS < R_FROM_MOS_KEYS(i + 1)
                 slope_num == (R_FROM_MOS_VALUES(i + 1) - R_FROM_MOS_VALUES(i)) * 1000
                                  * (MOS - R_FROM_MOS_KEYS(i))
                 slope_den == R_FROM_MOS_KEYS(i + 1) - R_FROM_MOS_KEYS(i)
             IN  unit * R_FROM_MOS_VALUES(i)
                     + FxDivDigits(slope_num \div slope_den, slope_num % slope_den,
                                   slope_den, 3)

\* ------------------------------------------- MOS and R round trip (SpecMos)
\* A caller converts an R value to MOS and the MOS back to R.
QGrid == 0..(100 * 8)

InitMos ==
    /\ \E Q \in QGrid : drv = [pc |-> "Q", Q |-> Q]
    /\ mw = MeasurementWindow
    /\ cb_log = <<>>
    /\ err = "none"
    /\ pa = Idle
    /\ pv = Idle
    /\ pq = Idle
    /\ sa = Idle

\* MOS = mos_from_r(Q)
MosFromR ==
    /\ drv.pc = "Q"
    /\ drv' = [pc |-> "MOS", Q |-> drv.Q, MOS |-> mos_from_r(drv.Q)]
    /\ UNCHANGED <<mw, cb_log, err, pa, pv, pq, sa>>

\* R = r_from_mos(MOS)
RFromMos ==
    /\ drv.pc = "MOS"
    /\ drv' = [pc |-> "R", Q |-> drv.Q, MOS |-> drv.MOS, R |-> r_from_mos(drv.MOS)]
    /\ UNCHANGED <<mw, cb_log, err, pa, pv, pq, sa>>

NextMos ==
    \/ MosFromR
    \/ RFromMos

SpecMos == InitMos /\ [][NextMos]_vars


\* ------------------------------ utils.calculate_compensated_size (SpecSize)
\* int(x) of a time in ticks: truncation towards zero, in seconds
IntOfTicks(t) ==
    IF t >= 0 THEN t \div TicksPerSec ELSE 0 - ((0 - t) \div TicksPerSec)

\* utils.calculate_compensated_size; args.dts is absent when dts is None
calculate_compensated_size(args) ==
    LET size_compensated ==
            IF "dts" \in DOMAIN args /\ IntOfTicks(args.dts) = 0
            THEN args.size - 800
            ELSE IF args.frame_type = "I"
            THEN args.size - 55
            ELSE args.size - 11
    IN  Max(size_compensated, 0)

\* A caller compensates the size of one frame.
SizeFrameTypes == {"I", "P", "B", "Non-I"}

SizeBytes == {0, 5, 11, 12, 55, 56, 800, 801, 1000, 5000}

\* 0 s, 1 tick, 0.5 s, 1 s less one tick, 1 s, 2.5 s
SizeDts == {0, 1, 1600, 3199, 3200, 8000}

SizeArgs ==
    [frame_type : SizeFrameTypes, size : SizeBytes]
        \cup [frame_type : SizeFrameTypes, size : SizeBytes, dts : SizeDts]

InitSize ==
    /\ \E args \in SizeArgs : drv = [pc |-> "call", args |-> args]
    /\ mw = MeasurementWindow
    /\ cb_log = <<>>
    /\ err = "none"
    /\ pa = Idle
    /\ pv = Idle
    /\ pq = Idle
    /\ sa = Idle

CompensatedSize ==
    /\ drv.pc = "call"
    /\ drv' = [pc |-> "return", args |-> drv.args,
               result |-> calculate_compensated_size(drv.args)]
    /\ UNCHANGED <<mw, cb_log, err, pa, pv, pq, sa>>

NextSize == CompensatedSize

SpecSize == InitSize /\ [][NextSize]_vars


\* ------------------------------------------ P1203Pq._calc_qdir (SpecQdir)
\* A caller classifies the quality direction changes of one O22 vector.
MaxQdirLen == 5

QdirLowLen == 7

\* vectors of scores whose window sums differ by even numbers, and vectors
\* of zeros with at most two ones, ending in zero: every moving average of
\* these is 0, 0.2 or 0.4, which floating point computes without rounding
QdirVectors ==
    UNION {[1..n -> {1, 3, 5}] : n \in 1..MaxQdirLen}
        \cup {v \in [1..QdirLowLen -> {0, 1}] :
                 v[QdirLowLen] = 0 /\ SumFrom(v, 1) <= 2}

InitQdir ==
    /\ \E O22 \in QdirVectors : drv = [pc |-> "call", O22 |-> O22]
    /\ mw = MeasurementWindow
    /\ cb_log = <<>>
    /\ err = "none"
    /\ pa = Idle
    /\ pv = Idle
    /\ pq = Idle
    /\ sa = Idle

CalcQdir ==
    /\ drv.pc = "call"
    /\ drv' = [pc |-> "return", O22 |-> drv.O22, qdir |-> calc_qdir(drv.O22)]
    /\ UNCHANGED <<mw, cb_log, err, pa, pv, pq, sa>>

NextQdir == CalcQdir

SpecQdir == InitQdir /\ [][NextQdir]_vars


\* ------------------------------------- rfmodel.get_rebuf_stats (SpecRebuf)
\* rfmodel.get_rebuf_stats: the list returned, with the two ratios in units
\* of 1e-6, or the exception raised
get_rebuf_stats(l_buff, p_buff, duration) ==
    IF p_buff = <<>> \/ (Len(p_buff) = 1 /\ p_buff[1] = 0)
    THEN [err |-> "none", stats |-> <<0, 0, 0, 0, duration>>]
    ELSE LET kept == {i \in 1..Len(p_buff) : p_buff[i] # 0}
             num_rebuf == Cardinality(kept)
             last == CHOOSE i \in kept : \A j \in kept : j <= i
         IN  IF \E i \in kept : i > Len(l_buff)
             THEN [err |-> "IndexError", stats |-> <<>>]
             ELSE IF kept = {}
             THEN [err |-> "IndexError", stats |-> <<>>]
             ELSE LET len_rebuf ==
                          SumFrom([i \in 1..Len(p_buff) |->
                                      IF i \in kept THEN l_buff[i] ELSE 0], 1)
                  IN  [err |-> "none",
                       stats |-> <<num_rebuf, len_rebuf,
                                   FxOf(num_rebuf) \div duration,
                                   FxOf(len_rebuf) \div duration,
                                   duration - p_buff[last]>>]

\* A caller asks for the statistics of up to MaxRebufEvents stalling events.
MaxRebufEvents == 3

RebufPositions == {0, 2, 5}

RebufLengths == {1, 3}

RebufDurations == {6, 10}

RebufEvents ==
    UNION {[1..n -> RebufPositions \X RebufLengths] : n \in 0..MaxRebufEvents}

InitRebuf ==
    /\ \E events \in RebufEvents, duration \in RebufDurations :
         drv = [pc |-> "call",
                l_buff |-> [i \in 1..Len(events) |-> events[i][2]],
                p_buff |-> [i \in 1..Len(events) |-> events[i][1]],
                duration |-> duration]
    /\ mw = MeasurementWindow
    /\ cb_log = <<>>
    /\ err = "none"
    /\ pa = Idle
    /\ pv = Idle
    /\ pq = Idle
    /\ sa = Idle

GetRebufStats ==
    /\ drv.pc = "call"
    /\ LET r == get_rebuf_stats(drv.l_buff, drv.p_buff, drv.duration)
       IN  drv' = [drv EXCEPT !.pc = IF r.err = "none" THEN "return" ELSE "raise"]
                     @@ [err |-> r.err, stats |-> r.stats]
    /\ UNCHANGED <<mw, cb_log, err, pa, pv, pq, sa>>

NextRebuf == GetRebufStats

SpecRebuf == InitRebuf /\ [][NextRebuf]_vars

\* ================================================================== claims

\* the timestamps the recording callback has seen, in order
Timestamps == [i \in 1..Len(cb_log) |-> cb_log[i].ts]

\* C3: after add_frame calls with contiguous dts from 0 and one
\* stream_finished call, the callback has been invoked with the timestamps
\* 1, 2, ..., F, in this order and once each, F being the floor of the
\* accumulated duration (its ceiling when the fraction exceeds 0.99).
C3_TimestampsOneToFinal ==
    (drv.last_op = "stream_finished" /\ drv.finished = 1 /\ mw.score_callback = "set")
        => Timestamps = [i \in 1..final_sample_timestamp(mw) |-> i]

\* C6: a call the window rejects (add_frame on a frame with zero or missing
\* duration, set_score_callback on a non-callable) fails with the one error
\* kind P1203Error and leaves the window as it was.
C6_RejectedWithP1203Error ==
    [][drv'.last_op \in {"add_frame_zero_duration", "add_frame_no_duration",
                         "set_score_callback_not_callable"}
         => (err' = P1203Error /\ mw' = mw)]_vars

HasAac == \E k \in 1..Len(pa.input) : pa.input[k].codec = "aac"

\* C9: for segments with codec "aac", calculate raises no unsupported-codec
\* error and returns the O21 of the same segments with codec "aaclc", in fast
\* mode (runs 1 and 2) and with the measurement window (runs 3 and 4).
C9_AacTreatedAsAaclc ==
    (pa.pc # "idle" /\ HasAac) =>
        /\ \A k \in 1..Len(pa.results) : pa.results[k].err # P1203Error
        /\ Len(pa.results) >= 2 => pa.results[1].o21 = pa.results[2].o21
        /\ Len(pa.results) >= 4 => pa.results[3].o21 = pa.results[4].o21

\* C10: for one audio segment longer than 11 s, the O21 returned in fast
\* mode (run 1) and the O21 returned with the measurement window (run 3)
\* have the same length and the same entries.
C10_FastModeAgrees ==
    (/\ pa.pc # "idle"
     /\ Len(pa.input) = 1
     /\ pa.input[1].duration > Sec(11)
     /\ Len(pa.results) >= 3
     /\ pa.results[1].err = "none"
     /\ pa.results[3].err = "none")
        => pa.results[1].o21 = pa.results[3].o21

\* C2: after P1203Pv.calculate() has returned on segments whose generated
\* frames total D seconds, O22 holds floor(D) scores in every mode, one per
\* invocation of the score callback.
C2_OneScorePerSecond ==
    (pv.pc = "done")
        => /\ Len(pv.o22) = SumDuration(pv.segments) \div TicksPerSec
           /\ Len(pv.o22) = Len(cb_log)

HasFrames(segment) == "frames" \in DOMAIN segment

AllFramesHaveQp(segment) ==
    \A i \in 1..Len(segment.frames) : "qpValues" \in DOMAIN segment.frames[i]

Reversed(seq) == [i \in 1..Len(seq) |-> seq[Len(seq) + 1 - i]]

\* C7: the mode P1203Pv.calculate selects is 3 only if every frame of every
\* segment carries qpValues, 1 when all segments have frames but some frame
\* lacks qpValues, 0 when a segment has no frames list, and is the same for
\* the segments listed in the opposite order.
C7_ModeSelection ==
    (pv.pc \notin {"idle", "new"}) =>
        LET segs == pv.segments
            all_frames == \A k \in 1..Len(segs) : HasFrames(segs[k])
        IN  /\ pv.mode = 3 =>
                    (all_frames /\ \A k \in 1..Len(segs) : AllFramesHaveQp(segs[k]))
            /\ (all_frames /\ \E k \in 1..Len(segs) : ~AllFramesHaveQp(segs[k]))
                    => pv.mode = 1
            /\ ~all_frames => pv.mode = 0
            /\ pv.mode = SelectMode(Reversed(segs), 1, 0).mode

\* C8: when the frames the measurement window hands to a score callback
\* carry more than one video codec, P1203Pv.calculate fails with a
\* P1203Error and emits no score for that callback.
C8_CodecSwitchIsFatal ==
    (pv.pc \in {"done", "error"}
     /\ \E n \in 1..Len(cb_log) : Cardinality(cb_log[n].codecs) > 1)
        => pv.err = P1203Error

\* C4: after P1203Pq is constructed, every retained stalling event (p, l)
\* has 0 <= p <= duration and l > 0, every event breaking this is dropped,
\* and the retained events keep their order and pairing.
C4_StallingFiltered ==
    (pq.pc = "constructed") =>
        LET duration == IF Len(pq.O21) > 0 THEN Min(Len(pq.O21), Len(pq.O22))
                        ELSE Len(pq.O22)
            n == Min(Len(pq.args.l_buff), Len(pq.args.p_buff))
            valid == {k \in 1..n : /\ 0 <= pq.args.p_buff[k]
                                   /\ pq.args.p_buff[k] <= duration
                                   /\ pq.args.l_buff[k] > 0}
            \* the k-th valid index, in input order
            nth(k) == CHOOSE j \in valid : Cardinality({i \in valid : i < j}) = k - 1
        IN  /\ Len(pq.l_buff) = Cardinality(valid)
            /\ Len(pq.p_buff) = Cardinality(valid)
            /\ \A k \in 1..Cardinality(valid) :
                    /\ pq.l_buff[k] = pq.args.l_buff[nth(k)]
                    /\ pq.p_buff[k] = pq.args.p_buff[nth(k)]

\* C1: for an input report with I11 and I13 segments, calculate_complete of
\* the exported class runs calculate_pa, calculate_pv and
\* calculate_integration in this order, each filling its slot, and returns
\* a result with O23, O34, O35, O46, streamId, mode and date.
C1_CompleteRunsAllSteps ==
    (/\ sa.pc = "ready"
     /\ sa.last = "calculate_complete"
     /\ sa.impl = "p1203_standalone"
     /\ {"I11", "I13"} \subseteq DOMAIN sa.input_report)
        => /\ sa.err = "none"
           /\ sa.trace = <<"calculate_pa", "calculate_pv", "calculate_integration">>
           /\ sa.audio # None
           /\ sa.video # None
           /\ sa.integration # None
           /\ {"O23", "O34", "O35", "O46", "streamId", "mode", "date"}
                 \subseteq DOMAIN sa.ret

\* C5: a call of calculate_integration on an instance whose audio or video
\* slot is still unset raises a P1203Error, runs no Pq calculation and
\* leaves the integration slot None.
C5_IntegrationNeedsScores ==
    [][(/\ sa.pc = "ready"
        /\ sa'.calls = sa.calls + 1
        /\ sa'.last = "calculate_integration"
        /\ (sa.audio = None \/ sa.video = None))
          => (/\ sa'.err = P1203Error
              /\ sa'.integration = None
              /\ pq' = pq)]_vars

\* C11: when calculate() returns and no stalling event is retained, because
\* none was passed or because every one was filtered out by the constructor,
\* stall_impact is 1 and O23 is 5, whatever O21 and O22 are.
C11_NoStallingNoImpact ==
    (pq.pc = "done" /\ pq.l_buff = <<>>) =>
        stalling_impact(pq) = Fx /\ pq.result.O23 = FxOf(5)

\* events were passed, every one was filtered out, and calculate() returned
C11_Witness ==
    /\ pq.pc = "done"
    /\ pq.args.l_buff # <<>>
    /\ pq.args.p_buff # <<>>
    /\ pq.l_buff = <<>>
    /\ pq.result.O23 = FxOf(5)

\* C12: the buffers calculate_integration passes to Pq. With a first
\* position p0 # 0 every position passed is p_i - p0, so the first is 0 and
\* the distances between events are kept; with p0 = 0 the positions are
\* passed as they are. The durations are passed unchanged in both cases.
C12_PositionsRebased ==
    pq.pc \in {"done", "error"} =>
        LET stalling == sa.input_report.I23.stalling
            passed == pq.args
        IN  /\ Len(passed.l_buff) = Len(stalling)
            /\ Len(passed.p_buff) = Len(stalling)
            /\ \A k \in 1..Len(stalling) :
                 /\ passed.l_buff[k] = stalling[k][2]
                 /\ passed.p_buff[k] = IF stalling[1][1] # 0
                                       THEN stalling[k][1] - stalling[1][1]
                                       ELSE stalling[k][1]
            /\ stalling # <<>> /\ stalling[1][1] # 0 => passed.p_buff[1] = 0
            /\ \A k \in 1..(Len(stalling) - 1) :
                 passed.p_buff[k + 1] - passed.p_buff[k] = stalling[k + 1][1] - stalling[k][1]

\* two events, the first at a nonzero position, have been passed to Pq
C12_Witness ==
    /\ pq.pc = "done"
    /\ Len(sa.input_report.I23.stalling) = 2
    /\ sa.input_report.I23.stalling[1][1] # 0
    /\ pq.args.p_buff = <<0, 1>>
    /\ pq.args.l_buff = <<1, 2>>

\* C13: when calculate() returns for O21 and O22 samples that all lie in
\* [1, 5], the session score O35 lies in [1, 5], whatever the stalling list
\* is and whichever of negative bias, oscillation compensation and adaptation
\* compensation are subtracted from O35_baseline.
C13_O35InRange ==
    (/\ pq.pc = "done"
     /\ \A t \in 1..Len(pq.O21) : 1 <= pq.O21[t] /\ pq.O21[t] <= 5
     /\ \A t \in 1..Len(pq.O22) : 1 <= pq.O22[t] /\ pq.O22[t] <= 5) =>
        LET O35 == PqO35(pq.O21, pq.O22, PqDuration(pq)).O35
        IN  Fx <= O35 /\ O35 <= FxOf(5)

\* C14: for every Q in [0, 100], r_from_mos(mos_from_r(Q)) differs from Q by
\* less than 1e-3, also for the small Q that mos_from_r clamps to 1.05.
C14_MosRoundTrip ==
    drv.pc = "R" =>
        LET Q == drv.Q * 1000 * 1000
            tolerance == 8 * 1000
        IN  drv.R - Q < tolerance /\ Q - drv.R < tolerance

C16_WindowAtMost20s ==
    (drv.last_op = "add_frame" /\ err = "none") =>
        ~FltGt(mw.acc_frame_dur, Sec(max_size))

\* C17: add_frame never invokes the score callback while the accumulated
\* presentation duration, the frame just added included, is below 11 s.
C17_NoEmissionInWarmUp ==
    [][(/\ Len(cb_log') > Len(cb_log)
        /\ cb_log'[Len(cb_log')].by = "add_frame") =>
           FltGe(mw'.acc_pvs_dur, Sec(half_window_size + 1))]_vars

\* add_frame has invoked the callback for timestamp 1 on reaching 11 s
C17_Witness ==
    /\ cb_log # <<>>
    /\ cb_log[1].by = "add_frame"
    /\ cb_log[1].ts = 1
    /\ mw.acc_pvs_dur = Exact(Sec(half_window_size + 1))

\* C18: once the accumulated presentation duration has reached 11 s, no
\* emission is pending when add_frame returns:
\* accumulated_pvs_duration - 10 < last_emitted + 1.
C18_NoEmissionPending ==
    (/\ drv.last_op = "add_frame"
     /\ err = "none"
     /\ drv.finished = 0
     /\ FltGe(mw.acc_pvs_dur, Sec(half_window_size + 1))) =>
        FltLt(FltSub(mw.acc_pvs_dur, Exact(Sec(half_window_size))),
              Sec(mw.last_score_output_at + 1))

\* C20: once stream_finished() has run, an add_frame() call adds no frame to
\* the window and invokes the callback no more.
C20_NoAddAfterFlush ==
    [][(drv.finished > 0 /\ drv'.after > drv.after) =>
           (mw'.frames = mw.frames /\ cb_log' = cb_log)]_vars

\* the step of the audio session that calls stream_finished()
C19_IsFlushStep ==
    /\ pa.inst.pc = "segment"
    /\ pa.inst.seg > Len(pa.inst.segments)
    /\ pa'.inst.pc \in {"done", "error"}

\* the frames evicted by that call are the leading frames of the window, in
\* order, and the accumulated duration is reduced by their durations
C19_EvictedInOrder ==
    /\ mw'.removed_frames \o mw'.frames = mw.removed_frames \o mw.frames
    /\ mw.acc_frame_dur.t - mw'.acc_frame_dur.t
           = SumFrom([k \in 1..(Len(mw.frames) - Len(mw'.frames)) |->
                         mw.frames[k].duration.t], 1)

\* C19, as the specification states it: during stream_finished, the window
\* handed to the callback for timestamp t holds no frame with dts < t - 10;
\* the frames evicted are taken from the front of the window in order and
\* the accumulated duration is reduced by their durations.
C19_FlushEvicts ==
    [][C19_IsFlushStep =>
          /\ \A i \in 1..Len(cb_log') :
                cb_log'[i].by = "stream_finished" => cb_log'[i].stale = 0
          /\ C19_EvictedInOrder]_vars

\* C19, amended: the comparison is made on the dts rounded to 5 decimals, so
\* the window handed to the callback for timestamp t holds no frame with
\* round(dts, 5) < t - 10; a frame whose dts is below t - 10 by less than
\* 0.000005 is kept.
C19_FlushEvictsRounded ==
    [][C19_IsFlushStep =>
          /\ \A i \in 1..Len(cb_log') :
                cb_log'[i].by = "stream_finished" => cb_log'[i].stale_rounded = 0
          /\ C19_EvictedInOrder]_vars

\* stream_finished() has evicted frames and has left at the front of the
\* window a frame whose dts is just below a full second
C19_Witness ==
    /\ pa.pc = "session"
    /\ pa.inst.pc = "done"
    /\ ~pa.fast_mode
    /\ mw.removed_frames # <<>>
    /\ mw.frames # <<>>
    /\ mw.frames[1].dts.e < 0
    /\ mw.frames[1].dts.t % TicksPerSec = 0
    /\ \E i \in 1..Len(cb_log) : cb_log[i].by = "stream_finished"


\* C21: calculate_compensated_size subtracts 800 bytes only when dts equals
\* 0; for every other dts (0 < dts < 1 included) it subtracts 55 bytes for
\* an I-frame and 11 bytes for any other frame type; the result is floored
\* at 0.
C21_FirstFrameOnlyAtZero ==
    drv.pc = "return" =>
        LET args == drv.args
            overhead == IF "dts" \in DOMAIN args /\ args.dts = 0 THEN 800
                        ELSE IF args.frame_type = "I" THEN 55 ELSE 11
        IN  drv.result = Max(args.size - overhead, 0)


\* C22: in _calc_qdir each stride-3 step of the smoothed O22 sequence is
\* classified +1 exactly when next - current > 0.2, -1 exactly when
\* current - next > 0.2, and 0 otherwise (a difference of exactly +0.2 or
\* -0.2 is classified 0).
C22_StepClassification ==
    drv.pc = "return" =>
        LET ma == drv.qdir.ma_filtered
            QC == drv.qdir.QC
        IN  \A k \in 1..Len(QC) :
               LET current_score == ma[3 * (k - 1) + 1]
                   next_score == ma[3 * k + 1]
               IN  QC[k] = IF next_score - current_score > Fx \div 5 THEN 1
                           ELSE IF current_score - next_score > Fx \div 5 THEN -1
                           ELSE 0


\* calculate() has returned for a session whose O22 is constant at a high
\* level for the first 15 s and constant at a lower level afterwards
C23_IsAdaptive ==
    /\ pq.pc = "done"
    /\ Len(pq.O22) >= 30
    /\ \A t \in 1..Len(pq.O22) : pq.O22[t] = IF t <= 15 THEN pq.O22[1]
                                             ELSE pq.O22[Len(pq.O22)]
    /\ pq.O22[1] - pq.O22[Len(pq.O22)] > 2

\* C23, as the specification states it: for a 30 s session whose O22 is high
\* for the first 15 s and low for the last 15 s (one transition,
\* vid_qual_spread > 2), calculate applies an adaptation compensation
\* adapt_comp > 0.
C23_AdaptCompPositive ==
    C23_IsAdaptive =>
        LET r == PqO35(pq.O21, pq.O22, PqDuration(pq))
        IN  r.vid_qual_spread > FxOf(2) /\ r.adapt_comp > 0

\* C23, amended: for such a session vid_qual_spread > 2 but the adaptation
\* compensation is 0: the single transition leaves a period without
\* direction change of at least a quarter of the session, so the test
\* q_dir_changes_longest / duration < 0.25 fails and adapt_comp keeps its
\* initial value.
C23_AdaptCompZero ==
    C23_IsAdaptive =>
        LET r == PqO35(pq.O21, pq.O22, PqDuration(pq))
        IN  /\ r.vid_qual_spread > FxOf(2)
            /\ 4 * r.q_dir_changes_longest >= PqDuration(pq)
            /\ r.adapt_comp = 0

\* calculate() has returned for an adaptive session of 30 s or more whose
\* quality changes once
C23_Witness ==
    /\ C23_IsAdaptive
    /\ pq.args.l_buff = <<>>
    /\ calc_video_quality_change_rate(pq.O22, PqDuration(pq)) > 0


\* C24: get_rebuf_stats returns [0, 0, 0, 0, duration] whenever no stalling
\* event has a nonzero position: for an empty list, for a single event at
\* position 0, and for several events that are all at position 0.
C24_NoRebufferZeroVector ==
    (/\ drv.pc \in {"return", "raise"}
     /\ \A i \in 1..Len(drv.p_buff) : drv.p_buff[i] = 0) =>
        /\ drv.pc = "return"
        /\ drv.stats = <<0, 0, 0, 0, drv.duration>>


\* C25: two consecutive video segments without representation that have the
\* same bitrate, codec and fps but different coding resolutions are
\* different quality levels: their frames get different representation
\* values and never belong to the same chunk returned by get_chunk.
C25_ResolutionSeparatesChunks ==
    (\A k \in 1..Len(pv.segments) : "representation" \notin DOMAIN pv.segments[k]) =>
        /\ \A i, j \in 1..Len(mw.frames) :
              mw.frames[i].resolution # mw.frames[j].resolution
                  => mw.frames[i].representation # mw.frames[j].representation
        /\ \A n \in 1..Len(cb_log) : Cardinality(cb_log[n].chunk_resolutions) <= 1


\* C26: when len(O21) and len(O22) differ, the outputs of calculate depend
\* only on the first duration = min(len(O21), len(O22)) samples of each
\* vector: a run on other vectors that agree with these on the first
\* duration samples, with the same stalling list, returns the same outputs.
\* Compared are O23, O34 and O35.
C26_OnlyFirstDurationSamples ==
    (pq.pc = "done" /\ pq.has_audio /\ Len(pq.O21) # Len(pq.O22)) =>
        LET duration == PqDuration(pq)
            mine == PqO35(pq.O21, pq.O22, duration)
        IN  \A session \in PqSessions :
               (/\ Len(session.O21) > 0
                /\ Min(Len(session.O21), Len(session.O22)) = duration
                /\ SubSeq(session.O21, 1, duration) = SubSeq(pq.O21, 1, duration)
                /\ SubSeq(session.O22, 1, duration) = SubSeq(pq.O22, 1, duration)) =>
                   LET other == PqCalculate(P1203Pq(session.O21, session.O22,
                                                    pq.args.l_buff, pq.args.p_buff))
                       theirs == PqO35(other.O21, other.O22, duration)
                   IN  /\ other.result.O23 = pq.result.O23
                       /\ other.result.O34 = pq.result.O34
                       /\ theirs.O35 = mine.O35


\* every frame fed to the window so far lasts at most 1 s
C27_ShortFrames ==
    \A i \in 1..Len(mw.removed_frames \o mw.frames) :
        (mw.removed_frames \o mw.frames)[i].duration.t <= TicksPerSec

\* C27: whenever the window invokes the score callback for timestamp t, from
\* add_frame or from stream_finished, for frames with contiguous dts from 0
\* and durations of at most 1 s, the window passed holds at least one frame
\* with dts < t, so the lookup of the last frame with dts < t does not fail.
C27_FrameBeforeTimestamp ==
    C27_ShortFrames => \A i \in 1..Len(cb_log) : cb_log[i].n_before >= 1


\* C28: in mode 3, at every score callback the list of P/B-frame QP values
\* that is averaged (after the I-frame pre-processing) is non-empty, so quant
\* and the resulting O22 sample are defined numbers, for every chunk: also
\* for a chunk of I frames only and for a chunk of one P/B-frame QP value
\* followed by an I frame.
C28_QpListNonEmpty ==
    pv.mode = 3 => \A i \in 1..Len(pv.o22) : pv.o22[i].qppb # <<>>


\* C29: stream_finished is idempotent with respect to emissions: a second
\* stream_finished on the same window, directly after the first one, invokes
\* the score callback zero times (no timestamp is emitted twice).
C29_SecondFlushSilent ==
    [][(drv.last_op = "stream_finished" /\ drv'.finished = drv.finished + 1)
          => cb_log' = cb_log]_vars


\* the sum of the durations of the frames the window holds, as a real number:
\* its ticks, and on which side of them it lies (every 0.01 s duration is a
\* double slightly above 1/100 s)
HeldDuration(w) ==
    LET n == Len(w.frames)
        es == {w.frames[i].duration.e : i \in 1..n}
    IN  Flt(SumFrom([i \in 1..n |-> w.frames[i].duration.t], 1),
            IF 1 \in es THEN 1 ELSE IF -1 \in es THEN -1 ELSE 0)

\* removed_frames followed by frames is what the caller added, in insertion
\* order: the first dts is 0, every frame starts where the one before it
\* ends, and the last one ends at the caller's running dts
AllFramesInOrder(w, next_dts) ==
    LET all == w.removed_frames \o w.frames
        n == Len(all)
    IN  /\ n = 0 => next_dts = 0
        /\ n > 0 => /\ all[1].dts.t = 0
                    /\ all[n].dts.t + all[n].duration.t = next_dts
        /\ \A i \in 1..(n - 1) : all[i + 1].dts.t = all[i].dts.t + all[i].duration.t

\* C30: after any sequence of add_frame and stream_finished calls, the
\* window's accumulated frame duration equals the sum of the durations of the
\* frames currently held, and the removed-frames list followed by the held
\* frames is exactly the sequence of all frames added, in insertion order.
C30_WindowAccounting ==
    /\ mw.acc_frame_dur = HeldDuration(mw)
    /\ pa.inst.err = "none" => AllFramesInOrder(mw, pa.inst.dts.t)

\* C30, as the code has it: the accumulated frame duration is a running
\* floating-point sum and equals the sum of the held durations up to its
\* rounding error; removed_frames followed by frames is exactly the sequence
\* of all frames added, in insertion order.
C30_WindowAccountingRounded ==
    /\ mw.acc_frame_dur.t = HeldDuration(mw).t
    /\ pa.inst.err = "none" => AllFramesInOrder(mw, pa.inst.dts.t)

\* a session longer than the window has been flushed: add_frame and
\* stream_finished have both evicted
C30_Witness ==
    /\ pa.inst.pc = "done"
    /\ pa.inst.dts.t > Sec(max_size)
    /\ \E i \in 1..Len(cb_log) : cb_log[i].by = "stream_finished"
    /\ mw.removed_frames # <<>>
    /\ mw.frames # <<>>
====
